---- MODULE Spec2Model ----
(***************************************************************************)
(* BrowserFS adapters of diginet-ab/BrowserFS.                             *)
(*                                                                         *)
(*  - SpecFs: the direct DsFs adapter (src/src/backend/DsFs.ts): open,     *)
(*    stat, createFile and the stat of a file handle, running as           *)
(*    concurrent calls against an IDsFs backend whose promises resolve or  *)
(*    reject one at a time, with other clients changing the backend in     *)
(*    between.                                                             *)
(*  - SpecTx: one transaction of the transaction manager over the GridFs  *)
(*    key-value store (src/src/backend/GridFsFileSystem.ts, lines 32-167), *)
(*    with every key and buffer, other users changing the store beside it. *)
(*  - SpecTxLocking: all the transactions of one MongoDBStore used         *)
(*    concurrently on one key.  Each transaction object owns its AsyncLock *)
(*    and touches nothing but the store, so the transactions meet only in  *)
(*    the store.                                                           *)
(*                                                                         *)
(*  - SpecTxPair: two of those transactions, for what one reads after the  *)
(*    other wrote and aborted.                                             *)
(*  - SpecTxStatic: the variant of the transaction classes that shares one *)
(*    static AsyncLock (same file, lines 606-770).                         *)
(*  - SpecNodeFs: the NodeFs adapter (src/src/backend/NodeFsFileSystem.ts) *)
(*    whose operations await the backend and catch what it throws.         *)
(*  - SpecErr: the error normalisers of the DsFs and GridFs adapters       *)
(*    applied to every rejection value of a bounded set.                   *)
(*  - SpecFsFair: SpecFs with one call at a time and every backend call   *)
(*    of open settling, for the termination of open.                       *)
(*  - SpecWb: the backend call sites of the write-back GridFs and DsFs     *)
(*    adapters (src/unnamed/part_002, part_000) and the paths they pass.   *)
(*  - SpecDsFsOps: the other path operations of the direct DsFs adapter,   *)
(*    the operations it does not support and DsFsFileSystem.Create with    *)
(*    its mode option; a caller's callback may throw.                      *)
(*  - SpecFile: the file handle (DsFsFile) of the direct DsFs adapter:     *)
(*    stat, truncate, write, read and utimes on a file with its bytes.     *)
(*  - SpecTxStaticFair: SpecTxStatic with every store call and commit      *)
(*    timer completing, for what a finished transaction leaves held.       *)
(*  - SpecTxPut: one transaction on one key that holds any value or none.  *)
(*  - SpecCallbacks: SpecNodeFs with close and sync of a NodeFsFile and    *)
(*    readlink of the key-value GridFsFileSystem, every await settling.    *)
(*  - SpecOpenRace: two callers of open of the direct DsFs adapter at the  *)
(*    same time, nobody else at the backend.                               *)
(*  - SpecHandles: two file handles of a write-back adapter on one path:   *)
(*    openFile, createFile, writes into the buffer, sync and close.        *)
(*                                                                         *)
(* A backend call and the promise handler that consumes its reply are one  *)
(* step: the handler reads only the reply, so every operation of another   *)
(* caller between the two commutes with the handler.                       *)
(***************************************************************************)
EXTENDS Integers, Sequences, FiniteSets, TLC

\* ------------------------------------------------------------- bounds
\* Number of adapter calls (open / stat / createFile) in flight at once.
MaxCalls == 1
\* Largest file size the IDsFs backend holds.
MaxSize == 1
\* Number of transactions begun on the one MongoDBStore.
MaxTx == 2
\* Longest byte sequence (Buffer) put into the key-value store.
MaxLen == 1
\* Number of commit() timers one transaction may have pending.
MaxTimers == 1
\* Longest Buffer given to DsFsFile.write.
MaxBuf == 2

VARIABLES
    node,       \* IDsFs backend: path -> node (type, size)
    call,       \* adapter calls in flight or finished: call id -> record
    lastMut,    \* history: path -> the kind of the last mutation of the path
    store,      \* GridFs key-value store: backend key -> stored file
    txn,        \* the transactions of the MongoDBStore: id -> record
    lock,       \* the AsyncLock objects: lock id -> owner and wait queue
    lastWrite,  \* history: the last change of the store, if a put or del
                \* of a transaction that the store performed
    norm,       \* one rejected backend call and what the adapter's error
                \* normaliser made of it
    fs          \* the DsFsFileSystem instance: the options it was created
                \* with and its _mode field

fsState == <<node, call, lastMut>>
txState == <<store, txn, lock, lastWrite>>
vars == <<node, call, lastMut, store, txn, lock, lastWrite, norm, fs>>

\* ---------------------------------------------------------- IDsFs backend
Calls == 1..MaxCalls
Paths == {"/", "/a"}

AbsentNode == [type |-> "absent", size |-> 0]
Nodes ==
    {AbsentNode}
        \cup [type : {"file"}, size : 0..MaxSize]
        \cup [type : {"directory", "symlink"}, size : {0}]

\* Errors a backend promise may reject with whatever the state of the path
\* (a transport fault, a bad parent directory).
BackendFaults == {"ENOTDIR", "EFAULT"}

\* getattr(filename): resolves with the attributes of an existing node.
getattrOutcomes(n) ==
    (IF n.type = "absent" THEN {"ENOENT"} ELSE {"ok"}) \cup BackendFaults

\* truncate(filename, length): "ok" sets the size of an existing file.
truncateOutcomes(n) ==
    (CASE n.type = "absent" -> {"ENOENT"}
       [] n.type = "directory" -> {"EISDIR"}
       [] OTHER -> {"ok"}) \cup BackendFaults

\* create(filename): "ok" creates an empty file at a free path.
createOutcomes(n) ==
    (IF n.type = "absent" THEN {"ok"} ELSE {"EEXIST"}) \cup BackendFaults

truncated(n, len) == [n EXCEPT !.size = len]
created == [type |-> "file", size |-> 0]

\* ------------------------------------------------------ results of a call
NoPath == ""
NoRes == [tag |-> "none", code |-> "", path |-> NoPath, ftype |-> "", size |-> 0]
ApiError(code, path) ==
    [tag |-> "err", code |-> code, path |-> path, ftype |-> "", size |-> 0]
DsFsFile(path) ==
    [tag |-> "handle", code |-> "", path |-> path, ftype |-> "", size |-> 0]
Stats(ftype, size) ==
    [tag |-> "stats", code |-> "", path |-> NoPath, ftype |-> ftype, size |-> size]

\* getApiError(e, path) of the string-code variant.
getApiError(e, path) ==
    CASE e = "ENOTEMPTY" -> ApiError("ENOTEMPTY", path)
      [] e = "EEXIST" -> ApiError("EEXIST", path)
      [] e = "EISDIR" -> ApiError("EISDIR", path)
      [] e = "ENOTDIR" -> ApiError("ENOTDIR", path)
      [] e = "ENOENT" -> ApiError("ENOENT", path)
      [] OTHER -> ApiError("EIO", NoPath)

\* --------------------------------------------- the file system instance
\* opts.mode / the constructor's mode parameter when no number is given.
NoMode == -1
\* parseInt('777', 8)
DefaultMode == 511
\* The modes a caller asks for: none, 0644, 0777.
Modes == {NoMode, 420, DefaultMode}

\* No instance has been created yet.
NoFs == [made |-> FALSE, opts |-> NoMode, _mode |-> NoMode]

\* The mode argument Create gives the constructor:
\* new DsFsFileSystem(opts.backend()) gives none.
CreateModeArgument(optsMode) == NoMode
\* this._mode = typeof mode === 'number' ? mode : parseInt('777', 8)
constructorMode(mode) == IF mode # NoMode THEN mode ELSE DefaultMode

\* ------------------------------------------------------------ call records
PathExistsActions == {"THROW_EXCEPTION", "TRUNCATE_FILE", "NOP"}
PathNotExistsActions == {"CREATE_FILE", "THROW_EXCEPTION"}

NoMut == "none"

IdleCall ==
    [op |-> "idle", path |-> NoPath, ea |-> "NOP", na |-> "THROW_EXCEPTION",
     pc |-> "idle", res |-> NoRes, nCb |-> 0,
     nGetattr |-> 0, nTruncate |-> 0, nCreate |-> 0,
     probe |-> "none", trunc |-> "none",
     fres |-> NoRes, seen |-> NoMut, clean |-> FALSE]

\* A slot is free before its first call and after its call has called back.
Free(c) == call[c].pc \in {"idle", "done", "fdone"}
\* A new call takes the lowest free slot.
InOrder(c) == Free(c) /\ \A d \in DOMAIN call : d < c => ~Free(d)

\* The slot of the runs that make one call at a time.
OneCall == {c \in Calls : c = 1}

\* History: call c has just changed path p (c = 0: another client has).
\* A handle stays clean while nobody else changes its path.
Touch(calls, c, p) ==
    [d \in DOMAIN calls |->
        IF d = c THEN [calls[d] EXCEPT !.clean = TRUE]
        ELSE IF calls[d].path = p THEN [calls[d] EXCEPT !.clean = FALSE]
        ELSE calls[d]]

\* cb(...) of the call: the completion callback is invoked with res.
Finish(r, res) == [r EXCEPT !.pc = "done", !.res = res, !.nCb = @ + 1]

\* ------------------------------------------------ DsFsFileSystem.open
\* const notExists = () => {...}: create the file, or fail with ENOENT.
notExists_createAlways(r) ==
    [r EXCEPT !.pc = "create", !.nCreate = @ + 1]
notExists(r) ==
    IF r.na = "CREATE_FILE"
    THEN [r EXCEPT !.pc = "create", !.nCreate = @ + 1]
    ELSE Finish(r, getApiError("ENOENT", r.path))

\* The length open passes to the backend's truncate.
OpenTruncateLength_one == 0 + 1
OpenTruncateLength == 0

\* const exists = () => { switch (flags.pathExistsAction()) ... }
exists_noBreak(r) ==
    CASE r.ea = "THROW_EXCEPTION" ->
            [Finish(r, getApiError("EEXIST", r.path))
                EXCEPT !.pc = "truncate", !.nTruncate = @ + 1]
      [] r.ea = "TRUNCATE_FILE" ->
            [r EXCEPT !.pc = "truncate", !.nTruncate = @ + 1]
      [] OTHER -> Finish(r, DsFsFile(r.path))
exists_truncateDefault(r) ==
    CASE r.ea = "THROW_EXCEPTION" -> Finish(r, getApiError("EEXIST", r.path))
      [] OTHER -> [r EXCEPT !.pc = "truncate", !.nTruncate = @ + 1]
exists(r) ==
    CASE r.ea = "THROW_EXCEPTION" -> Finish(r, getApiError("EEXIST", r.path))
      [] r.ea = "TRUNCATE_FILE" ->
            [r EXCEPT !.pc = "truncate", !.nTruncate = @ + 1]
      [] OTHER -> Finish(r, DsFsFile(r.path))

\* The rejection handler of the truncate promise.
truncateRejected_reprobe(r, err) ==
    IF err = "ENOENT"
    THEN [r EXCEPT !.pc = "getattr", !.nGetattr = @ + 1]
    ELSE Finish(r, getApiError(err, r.path))
truncateRejected_again(r, err) ==
    IF err = "ENOENT" /\ r.nTruncate < 2
    THEN [r EXCEPT !.pc = "truncate", !.nTruncate = @ + 1]
    ELSE Finish(r, getApiError(err, r.path))
truncateRejected(r, err) ==
    IF err = "ENOENT"
    THEN notExists(r)
    ELSE Finish(r, getApiError(err, r.path))

\* The rejection handler of the probe (getattr) promise.
probeRejected_anyIsAbsent(r, err) == notExists(r)
probeRejected(r, err) ==
    IF err = "ENOENT"
    THEN notExists(r)
    ELSE Finish(r, getApiError(err, r.path))

\* open(path, flags, mode, cb) up to its first backend call, getattr(path).
OpenCall(c, p, ea, na) ==
    /\ InOrder(c)
    /\ call' = [call EXCEPT ![c] =
            [IdleCall EXCEPT !.op = "open", !.path = p, !.ea = ea, !.na = na,
                             !.pc = "getattr", !.nGetattr = 1]]
    /\ UNCHANGED <<node, lastMut, txState, norm, fs>>

\* The backend answers open's getattr and the promise handler runs.
OpenProbeReply(c) ==
    /\ call[c].op = "open"
    /\ call[c].pc = "getattr"
    /\ \E o \in getattrOutcomes(node[call[c].path]) :
        LET r == [call[c] EXCEPT !.probe = o] IN
        call' = [call EXCEPT ![c] =
                    IF o = "ok" THEN exists(r) ELSE probeRejected(r, o)]
    /\ UNCHANGED <<node, lastMut, txState, norm, fs>>

\* The backend answers truncate(path, 0) and the promise handler runs.
OpenTruncateReply(c) ==
    /\ call[c].op = "open"
    /\ call[c].pc = "truncate"
    /\ \E o \in truncateOutcomes(node[call[c].path]) :
        LET p == call[c].path
            r == [call[c] EXCEPT !.trunc = o]
        IN  IF o = "ok"
            THEN /\ call' = Touch([call EXCEPT ![c] = Finish(r, DsFsFile(p))], c, p)
                 /\ node' = [node EXCEPT ![p] = truncated(@, OpenTruncateLength)]
                 /\ lastMut' = [lastMut EXCEPT ![p] = "truncate"]
                 /\ UNCHANGED <<txState, norm, fs>>
            ELSE /\ call' = [call EXCEPT ![c] = truncateRejected(r, o)]
                 /\ UNCHANGED <<node, lastMut, txState, norm, fs>>

\* The backend answers create(path) and the promise handler runs.
OpenCreateReply(c) ==
    /\ call[c].op = "open"
    /\ call[c].pc = "create"
    /\ \E o \in createOutcomes(node[call[c].path]) :
        LET p == call[c].path IN
        IF o = "ok"
        THEN /\ call' = Touch([call EXCEPT ![c] = Finish(@, DsFsFile(p))], c, p)
             /\ node' = [node EXCEPT ![p] = created]
             /\ lastMut' = [lastMut EXCEPT ![p] = "create"]
             /\ UNCHANGED <<txState, norm, fs>>
        ELSE /\ call' = [call EXCEPT ![c] = Finish(@, getApiError(o, p))]
             /\ UNCHANGED <<node, lastMut, txState, norm, fs>>

\* ------------------------------------------------ DsFsFileSystem.stat
\* if (path === '/'): the root is answered locally.
statIsRoot_never(path) == FALSE
statIsRoot(path) == path = "/"

\* The size of the synthesized root directory.
RootSize == 4096

\* FileType of the Stats built from the backend's metadata.type.
statFileType_swapped(type) ==
    IF type = "directory" THEN "DIRECTORY"
    ELSE IF type = "file" THEN "SYMLINK" ELSE "FILE"
statFileType(type) ==
    IF type = "directory" THEN "DIRECTORY"
    ELSE IF type = "file" THEN "FILE" ELSE "SYMLINK"

\* stat(path, isLstat, cb) up to setImmediate(...) or getattr(path, isLstat).
StatCall(c, p) ==
    /\ InOrder(c)
    /\ call' = [call EXCEPT ![c] =
            IF statIsRoot(p)
            THEN [IdleCall EXCEPT !.op = "stat", !.path = p, !.pc = "immediate"]
            ELSE [IdleCall EXCEPT !.op = "stat", !.path = p, !.pc = "getattr",
                                  !.nGetattr = 1]]
    /\ UNCHANGED <<node, lastMut, txState, norm, fs>>

\* The setImmediate callback of stat('/') runs.
StatImmediate(c) ==
    /\ call[c].op = "stat"
    /\ call[c].pc = "immediate"
    /\ call' = [call EXCEPT ![c] = Finish(@, Stats("DIRECTORY", RootSize))]
    /\ UNCHANGED <<node, lastMut, txState, norm, fs>>

\* The backend answers stat's getattr and the promise handler runs.
StatReply(c) ==
    /\ call[c].op = "stat"
    /\ call[c].pc = "getattr"
    /\ \E o \in getattrOutcomes(node[call[c].path]) :
        LET p == call[c].path
            r == [call[c] EXCEPT !.probe = o, !.seen = lastMut[p]]
        IN  call' = [call EXCEPT ![c] =
                IF o = "ok"
                THEN Finish(r, Stats(statFileType(node[p].type), node[p].size))
                ELSE Finish(r, getApiError(o, p))]
    /\ UNCHANGED <<node, lastMut, txState, norm, fs>>

\* ------------------------------------------ DsFsFileSystem.createFile
\* createFile(path, flags, mode, cb) up to its backend call, create(path).
CreateFileCall(c, p) ==
    /\ InOrder(c)
    /\ call' = [call EXCEPT ![c] =
            [IdleCall EXCEPT !.op = "createFile", !.path = p, !.pc = "create",
                             !.nCreate = 1]]
    /\ UNCHANGED <<node, lastMut, txState, norm, fs>>

\* The backend answers createFile's create and the promise handler runs.
CreateFileReply(c) ==
    /\ call[c].op = "createFile"
    /\ call[c].pc = "create"
    /\ \E o \in createOutcomes(node[call[c].path]) :
        LET p == call[c].path IN
        IF o = "ok"
        THEN /\ call' = Touch([call EXCEPT ![c] = Finish(@, DsFsFile(p))], c, p)
             /\ node' = [node EXCEPT ![p] = created]
             /\ lastMut' = [lastMut EXCEPT ![p] = "createFile"]
             /\ UNCHANGED <<txState, norm, fs>>
        ELSE /\ call' = [call EXCEPT ![c] = Finish(@, getApiError(o, p))]
             /\ UNCHANGED <<node, lastMut, txState, norm, fs>>

\* ----------------------------------------------------- DsFsFile.stat
\* stat(cb) on the handle a finished call returned: getattr(this.filename).
FileStatCall(c) ==
    /\ call[c].pc = "done"
    /\ call[c].res.tag = "handle"
    /\ call' = [call EXCEPT ![c].pc = "fgetattr"]
    /\ UNCHANGED <<node, lastMut, txState, norm, fs>>

\* The backend answers the handle's getattr and the promise handler runs.
FileStatReply(c) ==
    /\ call[c].pc = "fgetattr"
    /\ \E o \in getattrOutcomes(node[call[c].path]) :
        LET p == call[c].path IN
        call' = [call EXCEPT ![c].pc = "fdone",
                             ![c].fres = IF o = "ok"
                                         THEN Stats("FILE", node[p].size)
                                         ELSE ApiError("EIO", NoPath)]
    /\ UNCHANGED <<node, lastMut, txState, norm, fs>>

\* ------------------------------------------------------- other clients
\* Another client of the backend replaces the node at a non-root path.
OtherClient(p, n) ==
    /\ p # "/"
    /\ n # node[p]
    /\ node' = [node EXCEPT ![p] = n]
    /\ lastMut' = [lastMut EXCEPT ![p] = "other"]
    /\ call' = Touch(call, 0, p)
    /\ UNCHANGED <<txState, norm, fs>>

\* --------------------------------------------------------------- SpecFs
\* ============================================================
\* The error normalisers: getApiError of DsFs.ts (string codes), of the
\* write-back DsFs adapter (DsFsException {code, path}) and of the
\* write-back GridFs adapter (GridFsError, or an RPC fault wrapping one).
\* ============================================================
RecognisedCodes == {"ENOENT", "EEXIST", "EISDIR", "ENOTDIR", "ENOTEMPTY"}
BackendCodes == RecognisedCodes \cup {"EFAULT"}
\* The numeric code of a JSON-RPC internal error, as its digits.
RpcFaultCode == "-32603"

\* A value a backend promise rejects with: nothing, a code (with the path
\* the backend names, in the structured variants), or an RPC fault whose
\* data field holds the structured error.
NoData == [code |-> "", path |-> NoPath]
AbsentError == [present |-> FALSE, code |-> "", path |-> NoPath, data |-> NoData]
CodeError(code, path) ==
    [present |-> TRUE, code |-> code, path |-> path, data |-> NoData]
RpcFault(code, path) ==
    [present |-> TRUE, code |-> RpcFaultCode, path |-> NoPath,
     data |-> [code |-> code, path |-> path]]

StringErrors == {AbsentError} \cup {CodeError(c, NoPath) : c \in BackendCodes}
StructuredErrors ==
    {AbsentError} \cup {CodeError(c, p) : c \in BackendCodes, p \in Paths}
GridFsErrors ==
    StructuredErrors \cup {RpcFault(c, p) : c \in BackendCodes, p \in Paths}

\* getApiError(e: DsFsException) of the write-back DsFs adapter.
getApiErrorDsFsException_raw(e) == [NoRes EXCEPT !.tag = "raw", !.code = e.code]
getApiErrorDsFsException(e) ==
    IF ~e.present THEN ApiError("EIO", NoPath)
    ELSE CASE e.code = "ENOENT" -> ApiError("ENOENT", e.path)
           [] e.code = "ENOTEMPTY" -> ApiError("ENOTEMPTY", e.path)
           [] e.code = "EEXIST" -> ApiError("EEXIST", e.path)
           [] e.code = "EISDIR" -> ApiError("EISDIR", e.path)
           [] e.code = "ENOTDIR" -> ApiError("ENOTDIR", e.path)
           [] OTHER -> ApiError("EIO", NoPath)

\* typeof of a code: a code of digits is a number, any other a string.
TypeOf(code) == IF code = RpcFaultCode THEN "number" ELSE "string"

\* getApiError(e: GridFsError) of the write-back GridFs adapter:
\* `if (typeof e.code === -32603) e = e.data` compares the name of a type
\* with the number.
getApiErrorGridFs(e) ==
    IF ~e.present THEN ApiError("EIO", NoPath)
    ELSE LET e2 == IF TypeOf(e.code) = RpcFaultCode THEN e.data ELSE e
         IN  CASE e2.code = "ENOENT" -> ApiError("ENOENT", e2.path)
               [] e2.code = "EISDIR" -> ApiError("EISDIR", e2.path)
               [] e2.code = "EEXIST" -> ApiError("EEXIST", e2.path)
               [] e2.code = "ENOTDIR" -> ApiError("ENOTDIR", e2.path)
               [] e2.code = "ENOTEMPTY" -> ApiError("ENOTEMPTY", e2.path)
               [] OTHER -> ApiError("EIO", NoPath)

\* The path rename's rejection handler gives to getApiError.
renameErrorPath_new(oldPath, newPath) == newPath
renameErrorPath(oldPath, newPath) == oldPath

\* A rejected call: the adapter variant, the operation (rename, or stat
\* for the operations of one path), its paths and the rejection value.
NoNorm ==
    [variant |-> "none", op |-> "none", path |-> NoPath, newPath |-> NoPath,
     e |-> AbsentError, out |-> NoRes]
Rejected(variant, op, path, newPath, e) ==
    [variant |-> variant, op |-> op, path |-> path,
     newPath |-> IF op = "rename" THEN newPath ELSE NoPath, e |-> e, out |-> NoRes]
RejectionsOf(variant, errors) ==
    {Rejected(variant, op, p, q, e) :
        op \in {"rename", "stat"}, p \in Paths, q \in Paths, e \in errors}
Rejections ==
    RejectionsOf("string", StringErrors)
        \cup RejectionsOf("DsFsException", StructuredErrors)
        \cup RejectionsOf("GridFsError", GridFsErrors)

\* ============================================================
\* The GridFs key-value store and its transaction manager
\* (GridFsFileSystem.ts, instance-lock variant).
\* ============================================================
Tx == 1..MaxTx
NoTx == 0

\* A key is a string, kept as the sequence of its characters.
Keys == {<<"/">>, <<"/", "a">>, <<"!">>}
\* The inputs of the runs that only exercise the locking.
LockingKeys == {<<"/">>}
NoKey == <<>>

RECURSIVE replaceFirst(_, _, _)
\* String.prototype.replace with a string pattern: only the first
\* occurrence is replaced.
replaceFirst(s, from, to) ==
    IF s = <<>> THEN <<>>
    ELSE IF Head(s) = from THEN <<to>> \o Tail(s)
    ELSE <<Head(s)>> \o replaceFirst(Tail(s), from, to)

convertPath(inData) == replaceFirst(inData, "/", "!")

BackendKeys == {convertPath(k) : k \in Keys}

Byte == 0..1
Buffers == UNION {[1..n -> Byte] : n \in 0..MaxLen}
NoBuffer == <<>>
LockingBuffers == {NoBuffer}

\* What the GridFs store holds under one backend key.
NoFile == [present |-> FALSE, data |-> NoBuffer]
StoredFile(b) == [present |-> TRUE, data |-> b]
Files == {NoFile} \cup {StoredFile(b) : b \in Buffers}

\* Outcomes of the four GridFs calls: the promise resolves or rejects.
fileExistsOutcomes(f) == {IF f.present THEN "true" ELSE "false", "reject"}
downloadOutcomes(f) == IF f.present THEN {"ok", "reject"} ELSE {"reject"}
uploadOutcomes == {"true", "false", "reject"}
deleteFileOutcomes == {"ok", "reject"}

\* What a get / put / del callback receives as (err, value).  NoError is
\* an absent or null first argument.
NoError == "none"
NoValue == [err |-> NoError, tag |-> "none", data |-> NoBuffer]
Undefined == [err |-> NoError, tag |-> "undefined", data |-> NoBuffer]
BufferValue(b) == [err |-> NoError, tag |-> "buffer", data |-> b]
BoolValue(v) == [err |-> NoError, tag |-> v, data |-> NoBuffer]
Void == [err |-> NoError, tag |-> "void", data |-> NoBuffer]
\* cb(e): an error as the first argument and no value.
Raised(e) == [err |-> e, tag |-> "undefined", data |-> NoBuffer]

\* One transaction object: its type, its `done` field (set while it holds
\* the lock), its pending commit timers, the last commit / abort callback,
\* and its one get / put / del with the closure's variables.  `stable`
\* and `ended` are history: the probe of the get saw the last write and
\* nothing changed the store since; a commit or abort has released the
\* lock of the transaction.
NoTxn ==
    [type |-> "none", done |-> FALSE, timers |-> 0, endCb |-> "none",
     op |-> "none", key |-> NoKey, data |-> NoBuffer, pc |-> "idle",
     res |-> NoValue, probe |-> "none", dl |-> "none", reply |-> "none",
     nCb |-> 0, stable |-> FALSE, ended |-> FALSE]

\* History: the last change of the store, when it is a put or a del of
\* transaction `by` that the store performed.
NoWrite == [valid |-> FALSE, op |-> "none", key |-> NoKey, data |-> NoBuffer,
            by |-> NoTx]
Written(op, key, data, t) ==
    [valid |-> TRUE, op |-> op, key |-> key, data |-> data, by |-> t]

\* An accepted or attempted change of the store ends the period in which
\* earlier probes of any get are still current.
Unsettle(ts) == [t \in Tx |-> [ts[t] EXCEPT !.stable = FALSE]]

\* ------------------------------------------------------------ the lock
\* `protected lock = new AsyncLock()` is a field initialiser: every
\* transaction object constructs its own AsyncLock.
LockOf(t) == t
Locks == {LockOf(t) : t \in Tx}
FreeLock == [owner |-> NoTx, queue |-> <<>>]

\* The first backend call of an operation.
FirstCall(op) ==
    CASE op = "get" -> "fileExists"
      [] op = "put" -> "upload"
      [] op = "del" -> "deleteFile"

\* The operation record at the moment the operation is called.
Begun(r, op, key, data) ==
    [r EXCEPT !.op = op, !.key = key, !.data = data, !.pc = "lock",
              !.res = NoValue, !.probe = "none", !.dl = "none",
              !.reply = "none", !.nCb = 0, !.stable = FALSE]

\* asyncLock(cb): with `done` unset, acquire the AsyncLock under asyncKey;
\* a free lock runs the function at once (done is stored, cb issues the
\* backend call), a held lock queues it.  With `done` set, cb runs at once.
asyncLock_always(t, op, key, data) ==
    LET l == LockOf(t)
        r == Begun(txn[t], op, key, data)
    IN  IF lock[l].owner = NoTx
        THEN /\ txn' = [txn EXCEPT ![t] = [r EXCEPT !.pc = FirstCall(op),
                                                     !.done = TRUE]]
             /\ lock' = [lock EXCEPT ![l].owner = t]
        ELSE /\ txn' = [txn EXCEPT ![t] = r]
             /\ lock' = [lock EXCEPT ![l].queue = Append(@, t)]
asyncLock(t, op, key, data) ==
    LET l == LockOf(t)
        r == Begun(txn[t], op, key, data)
    IN  IF txn[t].done
        THEN /\ txn' = [txn EXCEPT ![t] = [r EXCEPT !.pc = FirstCall(op)]]
             /\ lock' = lock
        ELSE IF lock[l].owner = NoTx
        THEN /\ txn' = [txn EXCEPT ![t] = [r EXCEPT !.pc = FirstCall(op),
                                                     !.done = TRUE]]
             /\ lock' = [lock EXCEPT ![l].owner = t]
        ELSE /\ txn' = [txn EXCEPT ![t] = r]
             /\ lock' = [lock EXCEPT ![l].queue = Append(@, t)]

\* asyncDone(): with `done` set, call it and clear it.  Releasing the
\* AsyncLock hands it to the first queued function, which stores its own
\* `done` and issues its backend call.
asyncDoneTxn(ts, t) ==
    LET q == lock[LockOf(t)].queue
        rel == [ts EXCEPT ![t].done = FALSE, ![t].ended = TRUE]
    IN  IF ~ts[t].done THEN ts
        ELSE IF q = <<>> THEN rel
        ELSE [rel EXCEPT ![Head(q)].done = TRUE,
                         ![Head(q)].pc = FirstCall(rel[Head(q)].op)]

asyncDoneLock(t) ==
    LET l == LockOf(t)
        q == lock[l].queue
    IN  IF ~txn[t].done THEN lock
        ELSE IF q = <<>> THEN [lock EXCEPT ![l].owner = NoTx]
        ELSE [lock EXCEPT ![l] = [owner |-> Head(q), queue |-> Tail(q)]]

\* ------------------------------------------------------ MongoDBStore
TransactionTypes == {"readonly", "readwrite"}

\* beginTransaction(type): a new transaction object on the store.
beginTransaction(t, type) ==
    /\ txn[t].type = "none"
    /\ txn' = [txn EXCEPT ![t].type = type]
    /\ UNCHANGED <<store, lock, lastWrite, fsState, norm, fs>>

\* The transaction exists and its previous operation has called back.
Ready(t) == txn[t].type # "none" /\ txn[t].pc \in {"idle", "done"}

\* ---------------------------------------------------------------- get
get(t, key) ==
    /\ Ready(t)
    /\ asyncLock(t, "get", key, NoBuffer)
    /\ UNCHANGED <<store, lastWrite, fsState, norm, fs>>

\* The value the download handler passes on: cb(null, value2).
downloadResolved_dropped(value2) == Undefined
downloadResolved(value2) == BufferValue(value2)
\* What get hands on when the file is absent, the probe is rejected or
\* the download is rejected: cb(null, undefined) at all three places.
getNoValue_raised == Raised("reason")
getNoValue == Undefined

Called(r, res) == [r EXCEPT !.pc = "done", !.res = res, !.nCb = @ + 1,
                            !.data = NoBuffer]

getFileExistsReply(t) ==
    LET r == txn[t]
        f == store[convertPath(r.key)]
    IN  /\ r.pc = "fileExists"
        /\ \E o \in fileExistsOutcomes(f) :
            LET r1 == [r EXCEPT !.probe = o,
                                !.stable = lastWrite.valid /\ lastWrite.key = r.key]
            IN  txn' = [txn EXCEPT ![t] =
                    IF o = "true" THEN [r1 EXCEPT !.pc = "download"]
                    ELSE Called(r1, getNoValue)]
        /\ UNCHANGED <<store, lock, lastWrite, fsState, norm, fs>>

getDownloadReply(t) ==
    LET r == txn[t]
        f == store[convertPath(r.key)]
    IN  /\ r.pc = "download"
        /\ \E o \in downloadOutcomes(f) :
            LET r1 == [r EXCEPT !.dl = o]
            IN  txn' = [txn EXCEPT ![t] =
                    IF o = "ok" THEN Called(r1, downloadResolved(f.data))
                    ELSE Called(r1, getNoValue)]
        /\ UNCHANGED <<store, lock, lastWrite, fsState, norm, fs>>

\* ---------------------------------------------------------------- put
put_ifAbsent(t, key, data, overwrite) ==
    /\ Ready(t)
    /\ txn[t].type = "readwrite"
    /\ overwrite \/ ~store[convertPath(key)].present
    /\ asyncLock(t, "put", key, data)
    /\ UNCHANGED <<store, lastWrite, fsState, norm, fs>>
put(t, key, data, overwrite) ==
    /\ Ready(t)
    /\ txn[t].type = "readwrite"
    /\ asyncLock(t, "put", key, data)
    /\ UNCHANGED <<store, lastWrite, fsState, norm, fs>>

\* What put hands on: the store's own result, cb(null, result), or
\* cb(null, undefined) when the upload is rejected.
putResolved(result) == BoolValue(result)
putRejected_raised == Raised("reason")
putRejected == Undefined

putUploadReply(t) ==
    LET r == txn[t]
        k == convertPath(r.key)
    IN  /\ r.pc = "upload"
        /\ \E o \in uploadOutcomes :
            /\ txn' = [Unsettle(txn) EXCEPT ![t] =
                    Called([r EXCEPT !.reply = o],
                           IF o = "reject" THEN putRejected ELSE putResolved(o))]
            /\ IF o = "true"
               THEN /\ store' = [store EXCEPT ![k] = StoredFile(r.data)]
                    /\ lastWrite' = Written("put", r.key, r.data, t)
               ELSE /\ store' = store
                    /\ lastWrite' = NoWrite
        /\ UNCHANGED <<lock, fsState, norm, fs>>

\* ---------------------------------------------------------------- del
del(t, key) ==
    /\ Ready(t)
    /\ txn[t].type = "readwrite"
    /\ asyncLock(t, "del", key, NoBuffer)
    /\ UNCHANGED <<store, lastWrite, fsState, norm, fs>>

\* What del hands on: cb() whether deleteFile resolves or rejects.
delResolved == Void
delRejected_raised == Raised("reason")
delRejected == Void

delDeleteFileReply(t) ==
    LET r == txn[t]
        k == convertPath(r.key)
    IN  /\ r.pc = "deleteFile"
        /\ \E o \in deleteFileOutcomes :
            /\ txn' = [Unsettle(txn) EXCEPT ![t] =
                    Called([r EXCEPT !.reply = o],
                           IF o = "ok" THEN delResolved ELSE delRejected)]
            /\ store' = IF o = "ok" THEN [store EXCEPT ![k] = NoFile] ELSE store
            /\ lastWrite' = IF o = "ok" THEN Written("del", r.key, NoBuffer, t)
                                        ELSE NoWrite
        /\ UNCHANGED <<lock, fsState, norm, fs>>

\* ------------------------------------------------------ abort, commit
\* abort makes no store call: the store after abort is the store before.
abortedStore_rolledBack(s) == [k \in DOMAIN s |-> NoFile]
abortedStore(s) == s

abort(t) ==
    /\ txn[t].type # "none"
    /\ txn' = [asyncDoneTxn(txn, t) EXCEPT ![t].endCb = "abort"]
    /\ lock' = asyncDoneLock(t)
    /\ store' = abortedStore(store)
    /\ UNCHANGED <<lastWrite, fsState, norm, fs>>

\* commit(cb) only arms a zero-delay timer.
commit(t) ==
    /\ txn[t].type # "none"
    /\ txn[t].timers < MaxTimers
    /\ txn' = [txn EXCEPT ![t].timers = @ + 1, ![t].endCb = "none"]
    /\ UNCHANGED <<store, lock, lastWrite, fsState, norm, fs>>

commitTimeout(t) ==
    /\ txn[t].timers > 0
    /\ txn' = [asyncDoneTxn(txn, t) EXCEPT ![t].timers = @ - 1,
                                           ![t].endCb = "commit"]
    /\ lock' = asyncDoneLock(t)
    /\ UNCHANGED <<store, lastWrite, fsState, norm, fs>>

\* -------------------------------------------------------------- SpecTx
FsQuiet ==
    /\ node = [p \in Paths |-> IF p = "/" THEN [type |-> "directory", size |-> 0]
                                          ELSE AbsentNode]
    /\ call = [c \in Calls |-> IdleCall]
    /\ lastMut = [p \in Paths |-> NoMut]

TxQuiet ==
    /\ store = [k \in BackendKeys |-> NoFile]
    /\ txn = [t \in Tx |-> NoTxn]
    /\ lock = [l \in Locks |-> FreeLock]
    /\ lastWrite = NoWrite

\* Another user of the same GridFs store (a transaction of another
\* MongoDBStore object, another process) changes one stored file.
OtherStoreClient(k, f) ==
    /\ f # store[k]
    /\ store' = [store EXCEPT ![k] = f]
    /\ lastWrite' = NoWrite
    /\ txn' = Unsettle(txn)
    /\ UNCHANGED <<lock, fsState, norm, fs>>

InitTx ==
    /\ norm = NoNorm
    /\ fs = NoFs
    /\ FsQuiet
    /\ store \in [BackendKeys -> Files]
    /\ txn = [t \in Tx |-> NoTxn]
    /\ lock = [l \in Locks |-> FreeLock]
    /\ lastWrite = NoWrite

\* The steps of the transactions T called with keys K and buffers B.
TxNext(T, K, B) ==
    \/ \E t \in T, type \in TransactionTypes : beginTransaction(t, type)
    \/ \E t \in T, key \in K : get(t, key)
    \/ \E t \in T : getFileExistsReply(t)
    \/ \E t \in T : getDownloadReply(t)
    \/ \E t \in T, key \in K, data \in B, overwrite \in BOOLEAN :
          put(t, key, data, overwrite)
    \/ \E t \in T : putUploadReply(t)
    \/ \E t \in T, key \in K : del(t, key)
    \/ \E t \in T : delDeleteFileReply(t)
    \/ \E t \in T : abort(t)
    \/ \E t \in T : commit(t)
    \/ \E t \in T : commitTimeout(t)

\* One transaction with every key and buffer, the rest of the world
\* acting on the store beside it.
NextTx ==
    \/ TxNext({1}, Keys, Buffers)
    \/ \E k \in BackendKeys, f \in Files : OtherStoreClient(k, f)

SpecTx == InitTx /\ [][NextTx]_vars

\* One transaction used on one key that holds any value or none.
NextTxPut == TxNext({1}, LockingKeys, Buffers)

SpecTxPut == InitTx /\ [][NextTxPut]_vars

\* All the transactions of the store, used concurrently on one key.
NextTxLocking == TxNext(Tx, LockingKeys, LockingBuffers)

InitTxLocking ==
    /\ norm = NoNorm
    /\ fs = NoFs
    /\ FsQuiet
    /\ TxQuiet

SpecTxLocking == InitTxLocking /\ [][NextTxLocking]_vars

\* Two transactions of the store, one ending before or while the other
\* is used, on one key.
TxPair == {t \in Tx : t <= 2}
NextTxPair == TxNext(TxPair, LockingKeys, LockingBuffers)

SpecTxPair == InitTxLocking /\ [][NextTxPair]_vars

\* ============================================================
\* The static-lock variant of the transaction manager
\* (GridFsFileSystem.ts, lines 606-770): one AsyncLock for the class,
\* taken under 'key' by the constructor of a read-write transaction and
\* under 'keyXXXX' by every get.
\* ============================================================
RwKey == "key"
GetKey == "keyXXXX"
StaticLockKeys == {RwKey, GetKey}

\* The AsyncLock after its holder under key k has called done: the first
\* queued function, if any, becomes the holder.
Released(k) ==
    IF lock[k].queue = <<>> THEN [lock EXCEPT ![k].owner = NoTx]
    ELSE [lock EXCEPT ![k] = [owner |-> Head(@.queue), queue |-> Tail(@.queue)]]

\* new MongoDBROTransaction(store) / new MongoDBRWTransaction(store): the
\* read-write constructor asks for the lock; its function stores `done`
\* when the lock is granted, at once if the lock is free.
beginTransactionStatic(t, type) ==
    /\ txn[t].type = "none"
    /\ IF type = "readwrite"
       THEN IF lock[RwKey].owner = NoTx
            THEN /\ txn' = [txn EXCEPT ![t].type = type, ![t].done = TRUE]
                 /\ lock' = [lock EXCEPT ![RwKey].owner = t]
            ELSE /\ txn' = [txn EXCEPT ![t].type = type]
                 /\ lock' = [lock EXCEPT ![RwKey].queue = Append(@, t)]
       ELSE /\ txn' = [txn EXCEPT ![t].type = type]
            /\ lock' = lock
    /\ UNCHANGED <<store, lastWrite, fsState, norm, fs>>

\* get takes the lock under 'keyXXXX' for the duration of the one get.
getStatic(t, key) ==
    LET r == Begun(txn[t], "get", key, NoBuffer)
    IN  /\ Ready(t)
        /\ IF lock[GetKey].owner = NoTx
           THEN /\ txn' = [txn EXCEPT ![t] = [r EXCEPT !.pc = "fileExists"]]
                /\ lock' = [lock EXCEPT ![GetKey].owner = t]
           ELSE /\ txn' = [txn EXCEPT ![t] = r]
                /\ lock' = [lock EXCEPT ![GetKey].queue = Append(@, t)]
        /\ UNCHANGED <<store, lastWrite, fsState, norm, fs>>

\* The get of t has called back and called done(): the next queued get
\* issues its fileExists.
GetFinished(t, r) ==
    LET q == lock[GetKey].queue
    IN  /\ txn' = IF q = <<>> THEN [txn EXCEPT ![t] = r]
                  ELSE [txn EXCEPT ![t] = r, ![Head(q)].pc = "fileExists"]
        /\ lock' = Released(GetKey)

getFileExistsReplyStatic(t) ==
    LET r == txn[t]
        f == store[convertPath(r.key)]
    IN  /\ r.pc = "fileExists"
        /\ \E o \in fileExistsOutcomes(f) :
            LET r1 == [r EXCEPT !.probe = o,
                                !.stable = lastWrite.valid /\ lastWrite.key = r.key]
            IN  IF o = "true"
                THEN /\ txn' = [txn EXCEPT ![t] = [r1 EXCEPT !.pc = "download"]]
                     /\ lock' = lock
                ELSE GetFinished(t, Called(r1, getNoValue))
        /\ UNCHANGED <<store, lastWrite, fsState, norm, fs>>

getDownloadReplyStatic(t) ==
    LET r == txn[t]
        f == store[convertPath(r.key)]
    IN  /\ r.pc = "download"
        /\ \E o \in downloadOutcomes(f) :
            LET r1 == [r EXCEPT !.dl = o]
            IN  GetFinished(t, IF o = "ok" THEN Called(r1, downloadResolved(f.data))
                                           ELSE Called(r1, getNoValue))
        /\ UNCHANGED <<store, lastWrite, fsState, norm, fs>>

\* put and del call the store at once, whether or not the lock has been
\* granted to the transaction.
putStatic(t, key, data, overwrite) ==
    /\ Ready(t)
    /\ txn[t].type = "readwrite"
    /\ txn' = [txn EXCEPT ![t] = [Begun(@, "put", key, data) EXCEPT !.pc = "upload"]]
    /\ UNCHANGED <<store, lock, lastWrite, fsState, norm, fs>>

delStatic(t, key) ==
    /\ Ready(t)
    /\ txn[t].type = "readwrite"
    /\ txn' = [txn EXCEPT ![t] = [Begun(@, "del", key, NoBuffer) EXCEPT !.pc = "deleteFile"]]
    /\ UNCHANGED <<store, lock, lastWrite, fsState, norm, fs>>

\* commit(cb): `if (this.done) this.done()` now, cb on a zero-delay timer.
\* done() of an acquisition acts once; `done` is never cleared.
commitStatic(t) ==
    /\ txn[t].type = "readwrite"
    /\ txn[t].timers < MaxTimers
    /\ IF txn[t].done /\ lock[RwKey].owner = t
       THEN LET q == lock[RwKey].queue
                rel == [txn EXCEPT ![t].timers = @ + 1, ![t].endCb = "none",
                                   ![t].ended = TRUE]
            IN  /\ txn' = IF q = <<>> THEN rel
                          ELSE [rel EXCEPT ![Head(q)].done = TRUE]
                /\ lock' = Released(RwKey)
       ELSE /\ txn' = [txn EXCEPT ![t].timers = @ + 1, ![t].endCb = "none"]
            /\ lock' = lock
    /\ UNCHANGED <<store, lastWrite, fsState, norm, fs>>

commitTimeoutStatic(t) ==
    /\ txn[t].timers > 0
    /\ txn' = [txn EXCEPT ![t].timers = @ - 1, ![t].endCb = "commit"]
    /\ UNCHANGED <<store, lock, lastWrite, fsState, norm, fs>>

\* abort(cb) is cb(null) and nothing else.
abortStatic(t) ==
    /\ txn[t].type = "readwrite"
    /\ txn' = [txn EXCEPT ![t].endCb = "abort"]
    /\ UNCHANGED <<store, lock, lastWrite, fsState, norm, fs>>

InitTxStatic ==
    /\ norm = NoNorm
    /\ fs = NoFs
    /\ FsQuiet
    /\ store = [k \in BackendKeys |-> NoFile]
    /\ txn = [t \in Tx |-> NoTxn]
    /\ lock = [k \in StaticLockKeys |-> FreeLock]
    /\ lastWrite = NoWrite

NextTxStatic ==
    \/ \E t \in Tx, type \in TransactionTypes : beginTransactionStatic(t, type)
    \/ \E t \in Tx, key \in LockingKeys : getStatic(t, key)
    \/ \E t \in Tx : getFileExistsReplyStatic(t)
    \/ \E t \in Tx : getDownloadReplyStatic(t)
    \/ \E t \in Tx, key \in LockingKeys, data \in LockingBuffers,
          overwrite \in BOOLEAN : putStatic(t, key, data, overwrite)
    \/ \E t \in Tx : putUploadReply(t)
    \/ \E t \in Tx, key \in LockingKeys : delStatic(t, key)
    \/ \E t \in Tx : delDeleteFileReply(t)
    \/ \E t \in Tx : commitStatic(t)
    \/ \E t \in Tx : commitTimeoutStatic(t)
    \/ \E t \in Tx : abortStatic(t)

SpecTxStatic == InitTxStatic /\ [][NextTxStatic]_vars

\* The store answers every call it was sent and a zero-delay timer set by
\* commit fires; what a client calls, and when, is left open.
StaticCompletes ==
    \A t \in Tx :
        /\ WF_vars(getFileExistsReplyStatic(t))
        /\ WF_vars(getDownloadReplyStatic(t))
        /\ WF_vars(putUploadReply(t))
        /\ WF_vars(delDeleteFileReply(t))
        /\ WF_vars(commitTimeoutStatic(t))

SpecTxStaticFair == InitTxStatic /\ [][NextTxStatic]_vars /\ StaticCompletes

\* ============================================================
\* The NodeFs adapter (NodeFsFileSystem.ts, lines 192-287): every operation
\* awaits its backend calls inside try / catch and hands what it caught to
\* the callback.
\* ============================================================
NodeFsOps == {"empty", "rename", "stat", "openFile", "createFile", "unlink",
              "rmdir", "mkdir", "readdir"}

\* The backend calls an operation awaits, in order.  createFile ends by
\* calling openFile.
NodeFsAwaits(op) ==
    CASE op = "openFile" -> <<"openFile", "stat">>
      [] op = "createFile" -> <<"createFile", "openFile", "stat">>
      [] OTHER -> <<op>>

AwaitPcs == <<"await1", "await2", "await3">>
AwaitIndex(pc) == CHOOSE i \in 1..Len(AwaitPcs) : AwaitPcs[i] = pc

\* What the NodeFs backend (an RPC client) throws: error objects of its own.
NodeFsThrown == {"ENOENT", "EACCES", "EBUSY", "RPC-32603"}

\* cb(null) / cb(null, result), and cb(e) with the caught object itself.
NodeFsOk == [NoRes EXCEPT !.tag = "ok"]
NodeFsCaught(e) == [NoRes EXCEPT !.tag = "raw", !.code = e]

NodeFsCall(c, op, p) ==
    /\ InOrder(c)
    /\ call' = [call EXCEPT ![c] =
            [IdleCall EXCEPT !.op = op, !.pc = AwaitPcs[1],
                             !.path = IF op = "empty" THEN NoPath ELSE p]]
    /\ UNCHANGED <<node, lastMut, txState, norm, fs>>

\* The node at the path of a backend call after the call has resolved:
\* createFile leaves a file there, mkdir a directory, unlink and rmdir
\* nothing.
nodeFsResolved(awaited, n) ==
    CASE awaited = "createFile" -> IF n.type = "absent" THEN created ELSE n
      [] awaited = "mkdir" ->
            IF n.type = "absent" THEN [type |-> "directory", size |-> 0] ELSE n
      [] awaited \in {"unlink", "rmdir"} -> AbsentNode
      [] OTHER -> n

\* The awaited backend call resolves, and the operation goes on to its
\* next await or to cb(null, ...), or it throws and catch (e) runs.
NodeFsReply(c) ==
    LET r == call[c]
        awaited == NodeFsAwaits(r.op)[AwaitIndex(r.pc)]
    IN  /\ r.op \in NodeFsOps
        /\ r.pc \in {AwaitPcs[i] : i \in 1..Len(AwaitPcs)}
        /\ \E o \in {"ok"} \cup NodeFsThrown :
            LET after == IF o = "ok" /\ r.path # NoPath
                         THEN [node EXCEPT ![r.path] = nodeFsResolved(awaited, @)]
                         ELSE node
                q == IF o # "ok" THEN Finish(r, NodeFsCaught(o))
                     ELSE IF AwaitIndex(r.pc) < Len(NodeFsAwaits(r.op))
                     THEN [r EXCEPT !.pc = AwaitPcs[AwaitIndex(r.pc) + 1]]
                     ELSE Finish(r, NodeFsOk)
            IN  /\ node' = after
                /\ IF after # node
                   THEN /\ call' = Touch([call EXCEPT ![c] = q], c, r.path)
                        /\ lastMut' = [lastMut EXCEPT ![r.path] = awaited]
                   ELSE /\ call' = [call EXCEPT ![c] = q]
                        /\ lastMut' = lastMut
        /\ UNCHANGED <<txState, norm, fs>>

InitNodeFs ==
    /\ norm = NoNorm
    /\ fs = NoFs
    /\ FsQuiet
    /\ TxQuiet

NextNodeFs ==
    \/ \E c \in Calls, op \in NodeFsOps, p \in Paths : NodeFsCall(c, op, p)
    \/ \E c \in Calls : NodeFsReply(c)

SpecNodeFs == InitNodeFs /\ [][NextNodeFs]_vars

\* NodeFsFile.close(cb): `await this.ffs.nodeFs.closeFile(this.fd)` and
\* nothing else.
NodeFsFileClose(c) ==
    /\ InOrder(c)
    /\ call' = [call EXCEPT ![c] =
            [IdleCall EXCEPT !.op = "close", !.pc = "closeFile", !.path = "/a"]]
    /\ UNCHANGED <<node, lastMut, txState, norm, fs>>

\* closeFile resolves and the function body ends, or closeFile throws and
\* the promise of close is rejected; cb is used in neither case.
NodeFsCloseFileReply(c) ==
    /\ call[c].op = "close"
    /\ call[c].pc = "closeFile"
    /\ \E o \in {"ok"} \cup NodeFsThrown :
            call' = [call EXCEPT ![c].pc = "returned", ![c].probe = o]
    /\ UNCHANGED <<node, lastMut, txState, norm, fs>>

\* NodeFsFile.sync(cb): the body is empty.
NodeFsFileSync(c) ==
    /\ InOrder(c)
    /\ call' = [call EXCEPT ![c] =
            [IdleCall EXCEPT !.op = "sync", !.pc = "returned", !.path = "/a"]]
    /\ UNCHANGED <<node, lastMut, txState, norm, fs>>

\* GridFsFileSystem of the key-value variant: supportsSymlinks() is true
\* and the body of readlink(p, cb) is empty.
supportsSymlinks == TRUE
readlink(c, p) ==
    /\ InOrder(c)
    /\ supportsSymlinks
    /\ call' = [call EXCEPT ![c] =
            [IdleCall EXCEPT !.op = "readlink", !.pc = "returned", !.path = p]]
    /\ UNCHANGED <<node, lastMut, txState, norm, fs>>

\* The operations of the adapter together with those of its file handle
\* and readlink; the caller makes its next call when the callback of the
\* last one has been invoked.
NextCallbacks ==
    \/ NextNodeFs
    \/ \E c \in Calls : NodeFsFileClose(c)
    \/ \E c \in Calls : NodeFsCloseFileReply(c)
    \/ \E c \in Calls : NodeFsFileSync(c)
    \/ \E c \in Calls, p \in Paths : readlink(c, p)

\* Every awaited backend call settles.
AwaitsSettle ==
    \A c \in Calls : WF_vars(NodeFsReply(c)) /\ WF_vars(NodeFsCloseFileReply(c))

SpecCallbacks == InitNodeFs /\ [][NextCallbacks]_vars /\ AwaitsSettle

\* ============================================================
\* The write-back adapters (part_002: GridFsFileSystem over a GridFs
\* client; part_000: DsFsFileSystem over an IDsFs backend).  Every
\* operation makes its backend calls at once and calls back when the
\* promise settles.
\* ============================================================
WbVariants == {"GridFs", "DsFs"}
WbOps == {"rename", "stat", "openFile", "createFile", "unlink", "rmdir",
          "mkdir", "readdir", "_syncFile"}

\* function FixPath(p): if (p === '/') return '' else return p
FixPath_raw(p) == p
FixPath(p) == IF p = "/" THEN "" ELSE p

BackendCall(method, paths) == [method |-> method, paths |-> paths]

\* The backend calls of an operation of GridFsFileSystem, with the paths
\* they are given.  stat('/') is answered without a backend call.
GridFsBackendCalls(op, p, q) ==
    CASE op = "rename" -> <<BackendCall("rename", <<FixPath(p), FixPath(q)>>)>>
      [] op = "stat" ->
            IF p = "/" THEN <<>>
            ELSE <<BackendCall("getMetaData", <<FixPath(p)>>)>>
      [] op = "openFile" -> <<BackendCall("download", <<FixPath(p)>>)>>
      [] op = "createFile" -> <<BackendCall("upload", <<FixPath(p)>>)>>
      [] op = "unlink" -> <<BackendCall("deleteFile", <<FixPath(p)>>)>>
      [] op = "rmdir" -> <<BackendCall("rmdir", <<FixPath(p)>>)>>
      [] op = "mkdir" -> <<BackendCall("mkdir", <<FixPath(p)>>)>>
      [] op = "readdir" -> <<BackendCall("readdir", <<FixPath(p)>>)>>
      [] op = "_syncFile" -> <<BackendCall("upload", <<FixPath(p)>>)>>

\* The same of the write-back DsFsFileSystem; openFile reads the file and
\* its attributes with one FixPath'ed path.
DsFsBackendCalls(op, p, q) ==
    CASE op = "rename" -> <<BackendCall("rename", <<FixPath(p), FixPath(q)>>)>>
      [] op = "stat" ->
            IF p = "/" THEN <<>>
            ELSE <<BackendCall("stat", <<FixPath(p)>>)>>
      [] op = "openFile" ->
            LET _path == FixPath(p)
            IN  <<BackendCall("readFile", <<_path>>), BackendCall("stat", <<_path>>)>>
      [] op = "createFile" -> <<BackendCall("writeFile", <<FixPath(p)>>)>>
      [] op = "unlink" -> <<BackendCall("deleteFile", <<FixPath(p)>>)>>
      [] op = "rmdir" -> <<BackendCall("rmdir", <<FixPath(p)>>)>>
      [] op = "mkdir" -> <<BackendCall("mkdir", <<FixPath(p)>>)>>
      [] op = "readdir" -> <<BackendCall("readdir", <<FixPath(p)>>)>>
      [] op = "_syncFile" -> <<BackendCall("writeFile", <<FixPath(p)>>)>>

WbBackendCalls(variant, op, p, q) ==
    IF variant = "GridFs" THEN GridFsBackendCalls(op, p, q)
    ELSE DsFsBackendCalls(op, p, q)

\* A call of a write-back adapter: the operation, the caller's paths and
\* the backend calls the operation has sent.
WbIdle ==
    [variant |-> "none", op |-> "idle", path |-> NoPath, newPath |-> NoPath,
     pc |-> "idle", sent |-> <<>>, e |-> AbsentError, res |-> NoRes, nCb |-> 0]

\* What the backend promise may reject with.
WbRejections(variant, p) ==
    {AbsentError, CodeError("ENOENT", p), CodeError("EISDIR", p)}
        \cup (IF variant = "GridFs" THEN {RpcFault("ENOENT", p)} ELSE {})

\* The rejection handler of an operation: getApiError(e), but
\* cb(new ApiError(ErrorCode.EIO)) in _syncFile of GridFsFileSystem.
WbCaught(variant, op, e) ==
    IF variant = "GridFs"
    THEN IF op = "_syncFile" THEN ApiError("EIO", NoPath) ELSE getApiErrorGridFs(e)
    ELSE getApiErrorDsFsException(e)

WbOk == [NoRes EXCEPT !.tag = "ok"]

\* The only call slot the write-back runs use.
WbCalls == {c \in Calls : c = 1}

WbCall(c, variant, op, p, q) ==
    LET sent == WbBackendCalls(variant, op, p, q)
    IN  /\ InOrder(c)
        /\ call' = [call EXCEPT ![c] =
                [WbIdle EXCEPT !.variant = variant, !.op = op, !.path = p,
                               !.newPath = IF op = "rename" THEN q ELSE NoPath,
                               !.sent = sent,
                               !.pc = IF sent = <<>> THEN "immediate" ELSE "backend"]]
        /\ UNCHANGED <<node, lastMut, txState, norm, fs>>

\* setImmediate(() => cb(null, new Stats(FileType.DIRECTORY, 4096, ...)))
WbImmediate(c) ==
    /\ call[c].op \in WbOps
    /\ call[c].pc = "immediate"
    /\ call' = [call EXCEPT ![c] = Finish(@, Stats("DIRECTORY", RootSize))]
    /\ UNCHANGED <<node, lastMut, txState, norm, fs>>

\* The promise of the backend call settles and .then or .catch runs.
WbReply(c) ==
    LET r == call[c]
    IN  /\ r.op \in WbOps
        /\ r.pc = "backend"
        /\ \/ call' = [call EXCEPT ![c] = Finish(r, WbOk)]
           \/ \E e \in WbRejections(r.variant, r.sent[1].paths[1]) :
                call' = [call EXCEPT ![c] =
                    Finish([r EXCEPT !.e = e], WbCaught(r.variant, r.op, e))]
        /\ UNCHANGED <<node, lastMut, txState, norm, fs>>

InitWb ==
    /\ norm = NoNorm
    /\ fs = NoFs
    /\ TxQuiet
    /\ node = [p \in Paths |-> AbsentNode]
    /\ lastMut = [p \in Paths |-> NoMut]
    /\ call = [c \in Calls |-> WbIdle]

NextWb ==
    \/ \E c \in WbCalls, v \in WbVariants, op \in WbOps, p \in Paths, q \in Paths :
          WbCall(c, v, op, p, q)
    \/ \E c \in WbCalls : WbImmediate(c)
    \/ \E c \in WbCalls : WbReply(c)

SpecWb == InitWb /\ [][NextWb]_vars

\* ============================================================
\* The path operations of the direct DsFs adapter (DsFs.ts) other than
\* open, on an instance made by DsFsFileSystem.Create: each makes one
\* backend call and notifies the caller from the handlers of its promise.
\* ============================================================
DsFsOps == {"rename", "stat", "createFile", "unlink", "rmdir", "mkdir",
            "readdir", "symlink", "utimes", "readlink"}

\* utimes and readlink give both handlers to one then(onResolved,
\* onRejected); the others chain .then(onResolved).catch(onRejected), so
\* that onRejected also gets what onResolved throws.
ChainOf(op) == IF op \in {"utimes", "readlink"} THEN "then2" ELSE "thenCatch"

\* The path whose node the backend call is about (the new name of a link),
\* and the path the rejection handler gives to getApiError.
TargetPath(r) == IF r.op = "symlink" THEN r.newPath ELSE r.path
ErrorPath(r) == r.path

\* What the IDsFs call of an operation may settle with, by the node at its
\* target (rename: at its old path).
opOutcomes(op, n) ==
    (CASE op = "stat" -> getattrOutcomes(n)
       [] op = "createFile" -> createOutcomes(n)
       [] op = "unlink" ->
            (CASE n.type = "absent" -> {"ENOENT"}
               [] n.type = "directory" -> {"EISDIR"}
               [] OTHER -> {"ok"})
       [] op = "rmdir" ->
            (CASE n.type = "absent" -> {"ENOENT"}
               [] n.type = "directory" -> {"ok", "ENOTEMPTY"}
               [] OTHER -> {"ENOTDIR"})
       [] op = "mkdir" -> IF n.type = "absent" THEN {"ok"} ELSE {"EEXIST"}
       [] op = "readdir" ->
            (CASE n.type = "absent" -> {"ENOENT"}
               [] n.type = "directory" -> {"ok"}
               [] OTHER -> {"ENOTDIR"})
       [] op = "symlink" -> IF n.type = "absent" THEN {"ok"} ELSE {"EEXIST"}
       [] op = "utimes" -> IF n.type = "absent" THEN {"ENOENT"} ELSE {"ok"}
       [] op = "readlink" ->
            (CASE n.type = "absent" -> {"ENOENT"}
               [] n.type = "symlink" -> {"ok"}
               [] OTHER -> {"EINVAL"})
       [] op = "rename" -> IF n.type = "absent" THEN {"ENOENT"} ELSE {"ok"})
        \cup BackendFaults

\* The backend after the call of r has resolved.
opResolved(nodes, r) ==
    CASE r.op = "createFile" -> [nodes EXCEPT ![r.path] = created]
      [] r.op \in {"unlink", "rmdir"} -> [nodes EXCEPT ![r.path] = AbsentNode]
      [] r.op = "mkdir" ->
            [nodes EXCEPT ![r.path] = [type |-> "directory", size |-> 0]]
      [] r.op = "symlink" ->
            [nodes EXCEPT ![r.newPath] = [type |-> "symlink", size |-> 0]]
      [] r.op = "rename" ->
            IF r.newPath = r.path THEN nodes
            ELSE [nodes EXCEPT ![r.newPath] = nodes[r.path],
                               ![r.path] = AbsentNode]
      [] OTHER -> nodes

\* What the operations hand to the callback: Stats and file handles carry
\* the mode of the instance.
StatsOf(ftype, size, mode) ==
    [tag |-> "stats", code |-> "", path |-> NoPath, ftype |-> ftype,
     size |-> size, mode |-> mode]
DsFsFileOf(path, mode) ==
    [tag |-> "handle", code |-> "", path |-> path, ftype |-> "", size |-> 0,
     mode |-> mode]
Plain(res) ==
    [tag |-> res.tag, code |-> res.code, path |-> res.path,
     ftype |-> res.ftype, size |-> res.size, mode |-> NoMode]
OpOk == Plain([NoRes EXCEPT !.tag = "ok"])

\* The argument of the callback in the onResolved handler.
opSuccess(r, n) ==
    CASE r.op = "stat" -> StatsOf(statFileType(n.type), n.size, fs._mode)
      [] r.op = "createFile" -> DsFsFileOf(r.path, fs._mode)
      [] OTHER -> OpOk

OpIdle ==
    [op |-> "idle", path |-> NoPath, newPath |-> NoPath, pc |-> "idle",
     cbThrows |-> FALSE, reply |-> "none", res |-> Plain(NoRes), nCb |-> 0,
     nBackend |-> 0]

\* The operations that change the tree are not given the root.
OpPaths(op) ==
    IF op \in {"stat", "readdir", "utimes", "readlink"} THEN Paths
    ELSE Paths \ {"/"}

\* DsFsFileSystem.Create(opts, cb)
DsFsCreate(optsMode) ==
    /\ ~fs.made
    /\ fs' = [made |-> TRUE, opts |-> optsMode,
              _mode |-> constructorMode(CreateModeArgument(optsMode))]
    /\ UNCHANGED <<fsState, txState, norm>>

\* An operation up to its backend call (stat('/'): up to setImmediate).
\* cbThrows: the caller's callback throws when it is told of success.
DsFsOpCall(c, op, p, q, cbThrows) ==
    /\ fs.made
    /\ InOrder(c)
    /\ call' = [call EXCEPT ![c] =
            [OpIdle EXCEPT !.op = op, !.path = p,
                           !.newPath = IF op \in {"rename", "symlink"}
                                       THEN q ELSE NoPath,
                           !.cbThrows = cbThrows,
                           !.nBackend = IF op = "stat" /\ statIsRoot(p)
                                        THEN 0 ELSE 1,
                           !.pc = IF op = "stat" /\ statIsRoot(p)
                                  THEN "immediate" ELSE "backend"]]
    /\ UNCHANGED <<node, lastMut, txState, norm, fs>>

\* The setImmediate callback of stat('/').
DsFsOpImmediate(c) ==
    /\ call[c].op \in DsFsOps
    /\ call[c].pc = "immediate"
    /\ call' = [call EXCEPT ![c] =
            Finish(@, StatsOf("DIRECTORY", RootSize, fs._mode))]
    /\ UNCHANGED <<node, lastMut, txState, norm, fs>>

\* The backend call settles and the handler of the outcome runs: a
\* callback that throws in onResolved of a .then().catch() chain rejects
\* the promise onRejected waits for.
DsFsOpReply(c) ==
    LET r == call[c]
        n == node[TargetPath(r)]
    IN  /\ r.op \in DsFsOps
        /\ r.pc = "backend"
        /\ \E o \in opOutcomes(r.op, n) :
            IF o = "ok"
            THEN /\ node' = opResolved(node, r)
                 /\ call' = [call EXCEPT ![c] =
                        [Finish([r EXCEPT !.reply = o], opSuccess(r, n))
                            EXCEPT !.pc = IF r.cbThrows /\ ChainOf(r.op) = "thenCatch"
                                          THEN "thrown" ELSE "done"]]
            ELSE /\ node' = node
                 /\ call' = [call EXCEPT ![c] =
                        Finish([r EXCEPT !.reply = o],
                               Plain(getApiError(o, ErrorPath(r))))]
        /\ UNCHANGED <<lastMut, txState, norm, fs>>

\* onRejected runs with what the callback threw: cb(getApiError(e, path)).
DsFsOpCatchThrown(c) ==
    /\ call[c].op \in DsFsOps
    /\ call[c].pc = "thrown"
    /\ call' = [call EXCEPT ![c] =
            Finish(@, Plain(getApiError("thrown", ErrorPath(@))))]
    /\ UNCHANGED <<node, lastMut, txState, norm, fs>>

\* The synchronous methods of DsFsFile: throw new ApiError(ErrorCode.ENOTSUP).
SyncMethods == {"statSync", "truncateSync", "writeSync", "readSync",
                "chownSync", "chmodSync", "utimesSync"}
\* cb(new ApiError(ErrorCode.ENOTSUP)): chown and chmod of DsFsFile and
\* empty of the file system.
RefusedOps == {"chown", "chmod", "empty"}
\* cb() / cb(null) without a backend call: sync and close of DsFsFile.
NoOps == {"sync", "close"}

\* new ApiError(ErrorCode.ENOTSUP), handed to the callback or thrown.
notSupported_silent(how) == OpOk
notSupported(how) == Plain([ApiError("ENOTSUP", NoPath) EXCEPT !.tag = how])
\* The backend calls of sync(cb): none.
syncBackendCalls == 0

\* The operations that make no backend call and end inside the call: the
\* synchronous methods throw, chown, chmod and empty call back with
\* ENOTSUP, sync and close call back without an error.
DsFsLocal(c, op) ==
    /\ fs.made
    /\ InOrder(c)
    /\ call' = [call EXCEPT ![c] =
            LET r == [OpIdle EXCEPT !.op = op]
            IN  CASE op \in SyncMethods ->
                        [r EXCEPT !.pc = "done", !.res = notSupported("thrown")]
                  [] op \in RefusedOps -> Finish(r, notSupported("err"))
                  [] OTHER ->
                        Finish([r EXCEPT !.nBackend = syncBackendCalls], OpOk)]
    /\ UNCHANGED <<node, lastMut, txState, norm, fs>>

\* The backend is remote: getattr may resolve with a type that is none of
\* 'directory', 'file' and 'symlink'.
UnfitNode == [type |-> "socket", size |-> 0]

InitDsFsOps ==
    /\ norm = NoNorm
    /\ fs = NoFs
    /\ TxQuiet
    /\ node \in {f \in [Paths -> Nodes \cup {UnfitNode}] : f["/"].type = "directory"}
    /\ lastMut = [p \in Paths |-> NoMut]
    /\ call = [c \in Calls |-> OpIdle]

NextDsFsOps ==
    \/ \E m \in Modes : DsFsCreate(m)
    \/ \E c \in WbCalls, op \in DsFsOps, q \in Paths \ {"/"}, t \in BOOLEAN :
          \E p \in OpPaths(op) : DsFsOpCall(c, op, p, q, t)
    \/ \E c \in WbCalls : DsFsOpImmediate(c)
    \/ \E c \in WbCalls : DsFsOpReply(c)
    \/ \E c \in WbCalls : DsFsOpCatchThrown(c)
    \/ \E c \in WbCalls, op \in SyncMethods \cup RefusedOps \cup NoOps :
          DsFsLocal(c, op)

SpecDsFsOps == InitDsFsOps /\ [][NextDsFsOps]_vars

\* ============================================================
\* The file handle of the direct DsFs adapter (class DsFsFile of DsFs.ts)
\* on one file of an IDsFs backend that other clients change as well, and
\* the operations the adapter does not support.
\* ============================================================
HandlePath == "/a"

Min(a, b) == IF a <= b THEN a ELSE b
Max(a, b) == IF a >= b THEN a ELSE b

FileBuffers == UNION {[1..n -> Byte] : n \in 0..MaxBuf}
Positions == 0..MaxSize

\* The nodes of the backend with the bytes of a file.
FileNode(d) == [type |-> "file", size |-> Len(d), data |-> d]
OtherNode(t) == [type |-> t, size |-> 0, data |-> <<>>]
\* What another client leaves at the path of the handle.
ForeignNodes ==
    {FileNode(<<>>)} \cup {OtherNode(t) : t \in {"absent", "directory"}}

\* Buffer.slice(start, end): the bytes from index start up to, not
\* including, index end.
slice(buffer, start, end) == SubSeq(buffer, start + 1, Min(end, Len(buffer)))

\* The bytes write hands to the backend: buffer.slice(offset, length).
writeSlice(buffer, offset, length) == slice(buffer, offset, length)

\* IDsFs.write(filename, data, position): the file with data laid over it
\* at position, the gap before position filled with zeros.
writeAt(d, data, position) ==
    [i \in 1..Max(Len(d), position + Len(data)) |->
        IF i > position /\ i <= position + Len(data) THEN data[i - position]
        ELSE IF i <= Len(d) THEN d[i] ELSE 0]
\* IDsFs.read(filename, position, length)
readAt(d, position, length) ==
    SubSeq(d, position + 1, Min(Len(d), position + length))
\* IDsFs.truncate(filename, length)
truncateTo(d, length) == [i \in 1..length |-> IF i <= Len(d) THEN d[i] ELSE 0]

\* The operations of the handle that call the backend.
FileOps == {"stat", "truncate", "write", "read", "utimes"}
\* What the backend call of a handle operation may settle with.
fileOutcomes(op, n) ==
    IF op \in {"stat", "utimes"} THEN getattrOutcomes(n)
    ELSE truncateOutcomes(n)

FileRes(tag, code, data, size) ==
    [tag |-> tag, code |-> code, data |-> data, size |-> size]
NoFileRes == FileRes("none", "", <<>>, 0)
FileOk == FileRes("ok", "", <<>>, 0)
\* The rejection handlers of the handle: cb(new ApiError(ErrorCode.EIO)).
fileRejected(e) == FileRes("err", "EIO", <<>>, 0)
FileIdle ==
    [op |-> "idle", pc |-> "idle", buffer |-> <<>>, offset |-> 0, length |-> 0,
     position |-> 0, sent |-> <<>>, reply |-> "none", res |-> NoFileRes,
     nCb |-> 0]

\* A handle operation up to its backend call.  truncate takes length as
\* the new size, read as the number of bytes wanted.
FileCall(c, op, buffer, offset, length, position) ==
    /\ InOrder(c)
    /\ call' = [call EXCEPT ![c] =
            [FileIdle EXCEPT
                !.op = op, !.pc = "backend",
                !.buffer = IF op = "write" THEN buffer ELSE <<>>,
                !.offset = IF op = "write" THEN offset ELSE 0,
                !.length = IF op \in {"write", "read", "truncate"} THEN length ELSE 0,
                !.position = IF op \in {"write", "read"} THEN position ELSE 0,
                !.sent = IF op = "write" THEN writeSlice(buffer, offset, length)
                         ELSE <<>>]]
    /\ UNCHANGED <<node, lastMut, txState, norm, fs>>

\* The backend call settles and the handler of the outcome runs.
FileReply(c) ==
    LET r == call[c]
        n == node[HandlePath]
    IN  /\ r.op \in FileOps
        /\ r.pc = "backend"
        /\ \E o \in fileOutcomes(r.op, n) :
            LET q == [r EXCEPT !.reply = o] IN
            IF o # "ok"
            THEN /\ call' = [call EXCEPT ![c] = Finish(q, fileRejected(o))]
                 /\ node' = node
            ELSE CASE r.op = "stat" ->
                        /\ call' = [call EXCEPT ![c] =
                                Finish(q, FileRes("stats", "", <<>>, n.size))]
                        /\ node' = node
                   [] r.op = "truncate" ->
                        /\ call' = [call EXCEPT ![c] = Finish(q, FileOk)]
                        /\ node' = [node EXCEPT ![HandlePath] =
                                FileNode(truncateTo(n.data, r.length))]
                   [] r.op = "write" ->
                        /\ call' = [call EXCEPT ![c] =
                                Finish(q, FileRes("written", "", <<>>, Len(r.sent)))]
                        /\ node' = [node EXCEPT ![HandlePath] =
                                FileNode(writeAt(n.data, r.sent, r.position))]
                   [] r.op = "read" ->
                        LET data == readAt(n.data, r.position, r.length) IN
                        /\ call' = [call EXCEPT ![c] =
                                Finish(q, FileRes("read", "", data, Len(data)))]
                        /\ node' = node
                   [] OTHER ->
                        /\ call' = [call EXCEPT ![c] = Finish(q, FileOk)]
                        /\ node' = node
        /\ UNCHANGED <<lastMut, txState, norm, fs>>

\* Another client of the backend replaces the file of the handle.
FileOtherClient(n) ==
    /\ n # node[HandlePath]
    /\ node' = [node EXCEPT ![HandlePath] = n]
    /\ UNCHANGED <<call, lastMut, txState, norm, fs>>

InitFile ==
    /\ norm = NoNorm
    /\ fs = [made |-> TRUE, opts |-> NoMode, _mode |-> DefaultMode]
    /\ TxQuiet
    /\ node = [p \in Paths |->
                IF p = HandlePath THEN FileNode(<<>>) ELSE OtherNode("directory")]
    /\ lastMut = [p \in Paths |-> NoMut]
    /\ call = [c \in Calls |-> FileIdle]

NextFile ==
    \/ \E c \in WbCalls, buffer \in FileBuffers, position \in Positions :
          \E offset \in 0..Len(buffer) :
            \E length \in 0..(Len(buffer) - offset) :
                FileCall(c, "write", buffer, offset, length, position)
    \/ \E c \in WbCalls, length \in 0..MaxBuf, position \in Positions :
          \E op \in {"read", "truncate"} :
            FileCall(c, op, <<>>, 0, length, IF op = "read" THEN position ELSE 0)
    \/ \E c \in WbCalls, op \in {"stat", "utimes"} : FileCall(c, op, <<>>, 0, 0, 0)
    \/ \E c \in WbCalls : FileReply(c)
    \/ \E n \in ForeignNodes : FileOtherClient(n)

SpecFile == InitFile /\ [][NextFile]_vars

\* ============================================================
\* The file handles of the write-back adapters (classes DsFsFile and
\* GridFsFile, both on PreloadFile): a handle holds the content of the
\* file in a buffer of its own, writes change that buffer, and sync and
\* close hand the buffer to _syncFile.  Two handles on the one file
\* HandlePath of a backend nobody else uses.
\* ============================================================
WbHandles == {1, 2}

\* The file after upload(path, d) / writeFile(path, d): d is its content.
uploaded_overlay(n, d) == FileNode(writeAt(n.data, d, 0))
uploaded(n, d) == FileNode(d)

\* this.getBuffer() of a handle.
getBuffer(r) == r.buffer

\* What the promise of download, readFile, upload or writeFile is rejected
\* with when the backend fails.
HandleRejections == {CodeError("ENOENT", HandlePath)}

HandleIdle ==
    [variant |-> "none", op |-> "idle", pc |-> "idle", buffer |-> <<>>,
     dirty |-> FALSE, sent |-> <<>>, nWrites |-> 0, res |-> NoRes, nCb |-> 0]

\* The last upload the backend has carried out.
NoUpload == [by |-> 0, op |-> "none"]
Upload(h, op) == [by |-> h, op |-> op]

\* A backend call of handle slot h begins.
HandleBegun(r, op, pc) == [r EXCEPT !.op = op, !.pc = pc, !.res = NoRes, !.nCb = 0]
\* cb(...) of an operation of the slot.
HandleCalled(r, pc, res) == [r EXCEPT !.pc = pc, !.res = res, !.nCb = @ + 1]

\* openFile(path, flags, cb): download(FixPath(path)), or readFile and
\* stat of FixPath(path).
HandleOpenFile(h) ==
    /\ call[h].pc = "idle"
    /\ call' = [call EXCEPT ![h] = HandleBegun(@, "openFile", "download")]
    /\ UNCHANGED <<node, lastMut, txState, norm, fs>>

\* The content arrives and cb gets a handle whose buffer is that content,
\* or the promise is rejected.
HandleOpenFileReply(h) ==
    LET r == call[h]
        n == node[HandlePath]
    IN  /\ r.pc = "download"
        /\ \/ /\ n.type = "file"
              /\ call' = [call EXCEPT ![h] =
                    HandleCalled([r EXCEPT !.buffer = n.data], "open", WbOk)]
           \/ \E e \in HandleRejections :
                call' = [call EXCEPT ![h] =
                    HandleCalled(r, "idle", WbCaught(r.variant, "openFile", e))]
        /\ UNCHANGED <<node, lastMut, txState, norm, fs>>

\* createFile(p, flags, mode, cb): upload / writeFile of Buffer.alloc(0)
\* to FixPath(p), without a look at what is there.
HandleCreateFile(h) ==
    /\ call[h].pc = "idle"
    /\ call' = [call EXCEPT ![h] =
            [HandleBegun(@, "createFile", "upload") EXCEPT !.sent = <<>>]]
    /\ UNCHANGED <<node, lastMut, txState, norm, fs>>

HandleCreateFileReply(h) ==
    LET r == call[h]
    IN  /\ r.pc = "upload"
        /\ \/ /\ node' = [node EXCEPT ![HandlePath] = uploaded(@, r.sent)]
              /\ lastMut' = Upload(h, r.op)
              /\ call' = [call EXCEPT ![h] =
                    HandleCalled([r EXCEPT !.buffer = <<>>], "open", WbOk)]
           \/ /\ \E e \in HandleRejections :
                    call' = [call EXCEPT ![h] =
                        HandleCalled(r, "idle", WbCaught(r.variant, "createFile", e))]
              /\ UNCHANGED <<node, lastMut>>
        /\ UNCHANGED <<txState, norm, fs>>

\* write of PreloadFile: the byte is laid into the buffer of the handle,
\* which grows as needed; the backend is not called.
HandleWrite(h, b, position) ==
    /\ call[h].pc = "open"
    /\ position < MaxLen
    /\ call' = [call EXCEPT ![h].buffer = writeAt(@, <<b>>, position),
                            ![h].dirty = TRUE]
    /\ UNCHANGED <<node, lastMut, txState, norm, fs>>

\* sync(cb) is _syncFile(this.getPath(), this.getBuffer(), cb), and
\* close(cb) is sync(cb).
HandleSync(h, op) ==
    /\ call[h].pc = "open"
    /\ call' = [call EXCEPT ![h] =
            [HandleBegun(@, op, "syncing") EXCEPT !.sent = getBuffer(call[h]),
                                                  !.nWrites = 1]]
    /\ UNCHANGED <<node, lastMut, txState, norm, fs>>

\* _syncFile: the upload resolves and cb() is called, or it is rejected.
HandleSyncReply(h) ==
    LET r == call[h]
    IN  /\ r.pc = "syncing"
        /\ \/ /\ node' = [node EXCEPT ![HandlePath] = uploaded(@, r.sent)]
              /\ lastMut' = Upload(h, r.op)
              /\ call' = [call EXCEPT ![h] =
                    HandleCalled(r, IF r.op = "close" THEN "closed" ELSE "open", WbOk)]
           \/ /\ \E e \in HandleRejections :
                    call' = [call EXCEPT ![h] =
                        HandleCalled(r, "open", WbCaught(r.variant, "_syncFile", e))]
              /\ UNCHANGED <<node, lastMut>>
        /\ UNCHANGED <<txState, norm, fs>>

InitHandles ==
    /\ norm = NoNorm
    /\ fs = NoFs
    /\ TxQuiet
    /\ \E n \in {FileNode(d) : d \in Buffers} \cup {OtherNode("absent")} :
            node = [p \in Paths |-> IF p = HandlePath THEN n ELSE OtherNode("directory")]
    /\ \E v \in WbVariants :
            call = [h \in WbHandles |-> [HandleIdle EXCEPT !.variant = v]]
    /\ lastMut = NoUpload

NextHandles ==
    \/ \E h \in WbHandles : HandleOpenFile(h)
    \/ \E h \in WbHandles : HandleOpenFileReply(h)
    \/ \E h \in WbHandles : HandleCreateFile(h)
    \/ \E h \in WbHandles : HandleCreateFileReply(h)
    \/ \E h \in WbHandles, b \in Byte, position \in Positions : HandleWrite(h, b, position)
    \/ \E h \in WbHandles, op \in {"sync", "close"} : HandleSync(h, op)
    \/ \E h \in WbHandles : HandleSyncReply(h)

SpecHandles == InitHandles /\ [][NextHandles]_vars

\* ---- the rejection handlers of the three adapters
\* .catch(e => cb(getApiError(e, path))) of DsFs.ts.
DsFsCatch ==
    /\ norm.variant = "string"
    /\ norm.out = NoRes
    /\ norm' = [norm EXCEPT !.out =
            getApiError(norm.e.code,
                        IF norm.op = "rename"
                        THEN renameErrorPath(norm.path, norm.newPath)
                        ELSE norm.path)]
    /\ UNCHANGED <<fsState, txState, fs>>

\* .catch((e: DsFsException) => cb(getApiError(e))) of the write-back DsFs.
DsFsExceptionCatch ==
    /\ norm.variant = "DsFsException"
    /\ norm.out = NoRes
    /\ norm' = [norm EXCEPT !.out = getApiErrorDsFsException(norm.e)]
    /\ UNCHANGED <<fsState, txState, fs>>

\* .catch((e: GridFsError) => cb(getApiError(e))) of the write-back GridFs.
GridFsCatch ==
    /\ norm.variant = "GridFsError"
    /\ norm.out = NoRes
    /\ norm' = [norm EXCEPT !.out = getApiErrorGridFs(norm.e)]
    /\ UNCHANGED <<fsState, txState, fs>>

InitErr ==
    /\ fs = NoFs
    /\ FsQuiet
    /\ TxQuiet
    /\ norm \in Rejections

NextErr ==
    \/ DsFsCatch
    \/ DsFsExceptionCatch
    \/ GridFsCatch

SpecErr == InitErr /\ [][NextErr]_vars

InitFs ==
    /\ norm = NoNorm
    /\ fs = NoFs
    /\ TxQuiet
    /\ node \in {f \in [Paths -> Nodes] : f["/"].type = "directory"}
    /\ call = [c \in Calls |-> IdleCall]
    /\ lastMut = [p \in Paths |-> NoMut]

\* The steps of the calls in the slots C and of the other clients.
NextFsOf(C) ==
    \/ \E c \in C, p \in Paths \ {"/"}, ea \in PathExistsActions,
          na \in PathNotExistsActions : OpenCall(c, p, ea, na)
    \/ \E c \in C : OpenProbeReply(c)
    \/ \E c \in C : OpenTruncateReply(c)
    \/ \E c \in C : OpenCreateReply(c)
    \/ \E c \in C, p \in Paths : StatCall(c, p)
    \/ \E c \in C : StatImmediate(c)
    \/ \E c \in C : StatReply(c)
    \/ \E c \in C, p \in Paths \ {"/"} : CreateFileCall(c, p)
    \/ \E c \in C : CreateFileReply(c)
    \/ \E c \in C : FileStatCall(c)
    \/ \E c \in C : FileStatReply(c)
    \/ \E p \in Paths, n \in Nodes : OtherClient(p, n)

NextFs == NextFsOf(Calls)

SpecFs == InitFs /\ [][NextFs]_vars

\* Every backend call open has issued settles: the promise of getattr, of
\* truncate and of create resolves or rejects, and its handler runs.
BackendCompletes ==
    \A c \in OneCall :
        /\ WF_vars(OpenProbeReply(c))
        /\ WF_vars(OpenTruncateReply(c))
        /\ WF_vars(OpenCreateReply(c))

\* One call at a time beside the other clients, every backend call of
\* which settles.
SpecFsFair == InitFs /\ [][NextFsOf(OneCall)]_vars /\ BackendCompletes

\* Two callers open at the same time, with nobody else at the backend: the
\* second open is called while the first waits for the backend.
Racers == {1, 2}

InitOpenRace ==
    /\ norm = NoNorm
    /\ fs = NoFs
    /\ TxQuiet
    /\ node \in {f \in [Paths -> Nodes] : f["/"].type = "directory"}
    /\ call = [c \in Racers |-> IdleCall]
    /\ lastMut = [p \in Paths |-> NoMut]

NextOpenRace ==
    \/ \E c \in Racers, p \in Paths \ {"/"}, ea \in PathExistsActions,
          na \in PathNotExistsActions : OpenCall(c, p, ea, na)
    \/ \E c \in Racers : OpenProbeReply(c)
    \/ \E c \in Racers : OpenTruncateReply(c)
    \/ \E c \in Racers : OpenCreateReply(c)

SpecOpenRace == InitOpenRace /\ [][NextOpenRace]_vars

\* =================================================== claims on SpecFs
OpenCalls == {c \in Calls : call[c].op = "open"}
\* The calls that have called back (the handle's stat may follow).
Completed(c) == call[c].pc \in {"done", "fgetattr", "fdone"}
NoMutatingCall(c) == call[c].nTruncate = 0 /\ call[c].nCreate = 0

\* C2: open with pathExistsAction = THROW_EXCEPTION whose probe (getattr)
\* succeeds completes with EEXIST for the path, with one callback, and has
\* issued no truncate and no create, whatever pathNotExistsAction is.
C2_ExistsFailIsEEXIST ==
    \A c \in OpenCalls :
        (call[c].ea = "THROW_EXCEPTION" /\ call[c].probe = "ok") =>
            /\ call[c].pc = "done"
            /\ call[c].res = ApiError("EEXIST", call[c].path)
            /\ call[c].nCb = 1
            /\ NoMutatingCall(c)

C2_Witness ==
    \E c \in OpenCalls :
        /\ call[c].ea = "THROW_EXCEPTION"
        /\ call[c].probe = "ok"
        /\ call[c].pc = "done"
        /\ node[call[c].path].type = "file"

\* C3: open with pathNotExistsAction = THROW_EXCEPTION whose probe is
\* rejected with ENOENT completes with ENOENT for the path and has issued no
\* create and no truncate, whatever pathExistsAction is.
C3_NotExistsFailIsENOENT ==
    \A c \in OpenCalls :
        (call[c].na = "THROW_EXCEPTION" /\ call[c].probe = "ENOENT") =>
            /\ call[c].pc = "done"
            /\ call[c].res = ApiError("ENOENT", call[c].path)
            /\ call[c].nCb = 1
            /\ NoMutatingCall(c)

C3_Witness ==
    \E c \in OpenCalls :
        /\ call[c].ea = "THROW_EXCEPTION"
        /\ call[c].na = "THROW_EXCEPTION"
        /\ call[c].probe = "ENOENT"
        /\ call[c].pc = "done"

\* The truncate of an open(TRUNCATE_FILE, THROW_EXCEPTION) whose probe had
\* found the path was rejected with ENOENT.
TruncateRaced(c) ==
    /\ call[c].op = "open"
    /\ call[c].ea = "TRUNCATE_FILE"
    /\ call[c].na = "THROW_EXCEPTION"
    /\ call[c].probe = "ok"
    /\ call[c].trunc = "ENOENT"

\* C4 as stated: such an open ends in success, with a handle.
C4_RaceEndsInSuccess ==
    \A c \in Calls :
        (TruncateRaced(c) /\ Completed(c)) => call[c].res.tag = "handle"

\* C4 amended: such an open enters the path-absent branch once, with no
\* second probe and no second truncate; that branch issues no create and the
\* call ends, with one callback, in ENOENT for the path.
C4_RaceEndsInENOENT ==
    \A c \in Calls :
        TruncateRaced(c) =>
            /\ call[c].pc = "done"
            /\ call[c].res = ApiError("ENOENT", call[c].path)
            /\ call[c].nCb = 1
            /\ call[c].nGetattr = 1
            /\ call[c].nTruncate = 1
            /\ call[c].nCreate = 0

C4_Witness == \E c \in Calls : TruncateRaced(c) /\ call[c].pc = "done"

\* C5: an open with pathExistsAction = TRUNCATE_FILE whose truncate succeeds
\* returns a handle, and a stat on that handle which the backend answers
\* while nobody else has changed the path since reports size 0.
C5_TruncatedHandleStatsZero ==
    \A c \in OpenCalls :
        (call[c].ea = "TRUNCATE_FILE" /\ call[c].trunc = "ok") =>
            /\ Completed(c)
            /\ call[c].res = DsFsFile(call[c].path)
            /\ (call[c].pc = "fdone" /\ call[c].clean /\ call[c].fres.tag = "stats")
                    => call[c].fres.size = 0

C5_Witness ==
    \E c \in OpenCalls :
        /\ call[c].ea = "TRUNCATE_FILE"
        /\ call[c].trunc = "ok"
        /\ call[c].pc = "fdone"
        /\ call[c].clean
        /\ call[c].fres = Stats("FILE", 0)

\* C6: an open whose probe is rejected with anything but ENOENT completes
\* at once with that error normalized (ENOTDIR with the path; an unknown
\* code as EIO) and has issued no truncate and no create.
C6_ProbeErrorSurfaced ==
    \A c \in OpenCalls :
        (call[c].probe \notin {"none", "ok", "ENOENT"}) =>
            /\ call[c].pc = "done"
            /\ call[c].nCb = 1
            /\ NoMutatingCall(c)
            /\ call[c].probe = "ENOTDIR" => call[c].res = ApiError("ENOTDIR", call[c].path)
            /\ call[c].probe = "EFAULT" => call[c].res = ApiError("EIO", NoPath)

C6_Witness ==
    \E c \in OpenCalls :
        /\ call[c].probe = "EFAULT"
        /\ call[c].na = "CREATE_FILE"
        /\ call[c].pc = "done"

\* C7: an open with pathExistsAction = NOP whose probe succeeds returns a
\* handle after that one getattr: no truncate, no create, no second probe.
C7_OpenExistingOneCall ==
    \A c \in OpenCalls :
        (call[c].ea = "NOP" /\ call[c].probe = "ok") =>
            /\ Completed(c)
            /\ call[c].res = DsFsFile(call[c].path)
            /\ call[c].nCb = 1
            /\ call[c].nGetattr = 1
            /\ NoMutatingCall(c)

C7_Witness ==
    \E c \in OpenCalls :
        /\ call[c].ea = "NOP"
        /\ call[c].probe = "ok"
        /\ call[c].pc = "done"
        /\ node[call[c].path].type = "directory"

\* C8: stat('/') issues no backend call; nothing is delivered inside the
\* stat call itself (the call leaves a pending setImmediate and no callback),
\* and the delivery is (DIRECTORY, 4096), once, whatever the backend does.
RootStat(c) == call[c].op = "stat" /\ call[c].path = "/"
C8_RootStatState ==
    \A c \in Calls :
        RootStat(c) =>
            /\ call[c].nGetattr = 0
            /\ call[c].pc \in {"immediate", "done"}
            /\ call[c].pc = "immediate" => (call[c].nCb = 0 /\ call[c].res = NoRes)
            /\ call[c].pc = "done" =>
                    (call[c].nCb = 1 /\ call[c].res = Stats("DIRECTORY", 4096))
C8_RootStatStep ==
    \A c \in Calls :
        (Free(c) /\ call'[c] # call[c] /\ call'[c].op = "stat" /\ call'[c].path = "/")
            => (call'[c].pc = "immediate" /\ call'[c].nCb = 0)
C8_RootStatLocal == []C8_RootStatState /\ [][C8_RootStatStep]_vars

C8_Witness == \E c \in Calls : RootStat(c) /\ call[c].pc = "done"

\* C9: a stat of a non-root path that the backend answers when the last
\* change of the path was a successful createFile reports FILE and size 0.
C9_StatAfterCreateFile ==
    \A c \in Calls :
        (/\ call[c].op = "stat"
         /\ call[c].path # "/"
         /\ call[c].pc = "done"
         /\ call[c].seen = "createFile"
         /\ call[c].res.tag = "stats")
            => call[c].res = Stats("FILE", 0)

C9_Witness ==
    \E c \in Calls :
        /\ call[c].op = "stat"
        /\ call[c].pc = "done"
        /\ call[c].seen = "createFile"
        /\ call[c].res = Stats("FILE", 0)


\* ========================================= claims on the transactions
\* The operation of t is in its active period: t holds its lock.
Active(t) == txn[t].done

\* C1: two distinct transactions begun on the same MongoDBStore never have
\* overlapping active intervals: while one holds the lock (from the
\* acquisition by its first get / put / del to the release by its commit
\* or abort) the other does not hold it, so none of the other's
\* operations has reached the store in that interval.
C1_ActiveIntervalsDisjoint ==
    \A a, b \in Tx : a # b => ~(Active(a) /\ Active(b))

\* A get whose probe and download both ran after the accepted put of the
\* same key, with no put, del or foreign change of the store since.
GetAfterPut(t) ==
    /\ txn[t].op = "get"
    /\ txn[t].pc = "done"
    /\ txn[t].stable
    /\ lastWrite.valid
    /\ lastWrite.op = "put"
    /\ lastWrite.key = txn[t].key

\* C10: a get(k) that follows an accepted put(k, b) with no other put or
\* del in between, and whose own fileExists and download calls are not
\* rejected by the store, calls back once with exactly b, the empty b
\* included (an empty buffer, not "no value").
C10_PutGetRoundTrip ==
    \A t \in Tx :
        (GetAfterPut(t) /\ txn[t].probe # "reject" /\ txn[t].dl # "reject") =>
            /\ txn[t].res = BufferValue(lastWrite.data)
            /\ txn[t].nCb = 1

C10_Witness ==
    \E t \in Tx :
        /\ GetAfterPut(t)
        /\ txn[t].probe = "true"
        /\ txn[t].dl = "ok"
        /\ lastWrite.data = NoBuffer
        /\ txn[t].res = BufferValue(NoBuffer)

\* The gets that have called back.
GetsDone == {t \in Tx : txn[t].op = "get" /\ txn[t].pc = "done"}

\* C11: a get never hands an error to its callback and calls back once:
\* with no value when the probe said absent, the probe was rejected or
\* the download was rejected; with the downloaded bytes exactly when the
\* probe said present and the download resolved.
C11_GetFoldsFailures ==
    \A t \in GetsDone :
        /\ txn[t].nCb = 1
        /\ txn[t].res.err = NoError
        /\ (txn[t].probe \in {"false", "reject"} \/ txn[t].dl = "reject") =>
               txn[t].res = Undefined
        /\ (txn[t].res.tag = "buffer") <=>
               (txn[t].probe = "true" /\ txn[t].dl = "ok")
        /\ txn[t].res.tag \in {"buffer", "undefined"}

C11_Witness ==
    \E t \in GetsDone :
        /\ txn[t].probe = "true"
        /\ txn[t].dl = "reject"
        /\ txn[t].res = Undefined

\* The dels that have called back.
DelsDone == {t \in Tx : txn[t].op = "del" /\ txn[t].pc = "done"}

C12_DelState ==
    \A t \in DelsDone : txn[t].res = Void /\ txn[t].nCb = 1

\* The step in which the deleteFile call of t is answered.
DelAnswered(t) == txn[t].pc = "deleteFile" /\ txn'[t].pc = "done"

C12_DelStep ==
    \A t \in Tx : DelAnswered(t) =>
        LET k == convertPath(txn[t].key)
        IN  /\ txn'[t].res = Void
            /\ \A j \in BackendKeys : j # k => store'[j] = store[j]
            /\ ~store[k].present => store' = store
            /\ txn'[t].reply = "ok" => ~store'[k].present

\* C12: del calls back exactly once and without an error whether the key
\* holds a file, holds none (never written, already deleted) or deleteFile
\* is rejected; a del of a key that holds no file leaves the store as it
\* is, so a second del in a row changes nothing the first did; a del the
\* store performs leaves the key absent and touches no other key.
C12_DelNeverFails == []C12_DelState /\ [][C12_DelStep]_vars

C12_Witness ==
    \E t \in DelsDone :
        /\ txn[t].reply = "reject"
        /\ ~store[convertPath(txn[t].key)].present
        /\ txn[t].res = Void

\* The puts that have called back.
PutsDone == {t \in Tx : txn[t].op = "put" /\ txn[t].pc = "done"}

\* C13: a put never hands an error to its callback and calls back once:
\* with the store's own result (true or false) when the upload resolves,
\* and with a value that is not true (undefined) when the upload is
\* rejected.
C13_PutReportsStoreResult ==
    \A t \in PutsDone :
        /\ txn[t].nCb = 1
        /\ txn[t].res.err = NoError
        /\ txn[t].reply \in {"true", "false"} => txn[t].res = BoolValue(txn[t].reply)
        /\ txn[t].reply = "reject" => txn[t].res = Undefined
        /\ (txn[t].res.tag = "true") <=> (txn[t].reply = "true")

C13_Witness ==
    \E t \in PutsDone :
        /\ txn[t].reply = "reject"
        /\ txn[t].res = Undefined

\* C14: once abort has called back, the transaction does not hold the
\* transaction lock (abort released it if it was held).  Stated for the
\* static-lock variant, whose transactions never take the lock again.
C14_AbortReleasesLock ==
    \A t \in Tx : txn[t].endCb = "abort" => lock[RwKey].owner # t

\* Transaction a made the last change of the store, its put or del has
\* called back and its abort has called back; the get of another
\* transaction b probed the store after that change, nothing changed the
\* store since, and the store answered the calls of the get.
GetAfterAbortedWrite(a, b) ==
    /\ a # b
    /\ lastWrite.valid
    /\ lastWrite.by = a
    /\ txn[a].pc = "done"
    /\ txn[a].endCb = "abort"
    /\ b \in GetsDone
    /\ txn[b].stable
    /\ txn[b].key = lastWrite.key
    /\ txn[b].probe # "reject"
    /\ txn[b].dl # "reject"

\* C15: abort is not a rollback: a get of another transaction that
\* follows the put or del of an aborted transaction gets the value put,
\* or no value after a del.
C15_AbortKeepsWrites ==
    \A a, b \in Tx : GetAfterAbortedWrite(a, b) =>
        /\ lastWrite.op = "put" => txn[b].res = BufferValue(lastWrite.data)
        /\ lastWrite.op = "del" => txn[b].res = Undefined

C15_Witness ==
    \E a, b \in Tx :
        /\ GetAfterAbortedWrite(a, b)
        /\ lastWrite.op = "put"
        /\ txn[b].res = BufferValue(lastWrite.data)

\* The step in which commit() is called on t and returns.
CommitCalled(t) == txn'[t].timers = txn[t].timers + 1

\* C16: commit() does not release the lock synchronously: a transaction
\* that holds the transaction lock when commit() is called still holds it
\* when commit() returns (the release is left to a later turn).  Stated
\* for the static-lock variant.
C16_CommitReleasesLater ==
    [][\A t \in Tx : (CommitCalled(t) /\ lock[RwKey].owner = t) =>
                        lock'[RwKey].owner = t]_vars

\* C17: a transaction is not used again after it ends: once its commit or
\* abort has released its lock, the transaction never holds the lock
\* again (no later get / put / del of it acquires the lock and reaches
\* the store).
C17_EndedNeverActive ==
    \A t \in Tx : txn[t].ended => ~Active(t)

\* The error kinds of the adapters' taxonomy.
Taxonomy == {"ENOENT", "EEXIST", "EISDIR", "ENOTDIR", "ENOTEMPTY", "ENOTSUP", "EIO"}

\* C18: whatever error an adapter operation delivers is an ApiError whose
\* kind is in the taxonomy; no object thrown by the backend is handed to
\* the caller as it was caught.
C18_ErrorsInTaxonomy ==
    \A c \in Calls :
        /\ call[c].res.tag # "raw"
        /\ call[c].res.tag = "err" => call[c].res.code \in Taxonomy

\* The rejection has been normalised and handed to the callback.
Normalised == norm.out # NoRes
\* The path the normalised error must carry: the path of the failing
\* operation (the old path of rename) in the string-code variant, the path
\* the backend names in the structured variants.
OffendingPath == IF norm.variant = "string" THEN norm.path ELSE norm.e.path

\* C19: a rejection with one of the codes ENOENT, EEXIST, EISDIR, ENOTDIR,
\* ENOTEMPTY is normalised to the ApiError of that code carrying the
\* offending path.
C19_RecognisedCodesKeepKindAndPath ==
    (Normalised /\ norm.e.present /\ norm.e.code \in RecognisedCodes) =>
        norm.out = ApiError(norm.e.code, OffendingPath)

C19_Witness ==
    /\ Normalised
    /\ norm.variant = "string"
    /\ norm.op = "rename"
    /\ norm.path # norm.newPath
    /\ norm.e.code = "ENOTEMPTY"
    /\ norm.out = ApiError("ENOTEMPTY", norm.path)

\* C20: a rejection with no value, or with a code that is none of the five
\* (an RPC fault aside), is normalised to the ApiError EIO; the value the
\* backend rejected with is not what the callback gets.
C20_UnrecognisedIsEIO ==
    (Normalised /\ norm.e.code # RpcFaultCode
                /\ (~norm.e.present \/ norm.e.code \notin RecognisedCodes)) =>
        norm.out = ApiError("EIO", NoPath)

C20_Witness ==
    /\ Normalised
    /\ norm.variant = "DsFsException"
    /\ ~norm.e.present
    /\ norm.out = ApiError("EIO", NoPath)

\* C21: an RPC fault whose data field wraps a structured error with one of
\* the five codes is normalised to the ApiError of the wrapped code
\* carrying the wrapped path, not to EIO.
C21_RpcFaultUnwrapped ==
    (Normalised /\ norm.variant = "GridFsError"
                /\ norm.e.code = RpcFaultCode
                /\ norm.e.data.code \in RecognisedCodes) =>
        norm.out = ApiError(norm.e.data.code, norm.e.data.path)

\* What a get of key k is answered from.
StoredUnder(s, k) == s[convertPath(k)]
\* The store has answered the put or del of transaction t in this step.
WriteAnswered(t) ==
    /\ txn[t].op \in {"put", "del"}
    /\ txn[t].pc # "done"
    /\ txn'[t].pc = "done"

WbCallsMade == {c \in Calls : call[c].op \in WbOps}
\* The paths an operation was called with, in the order it passes them on.
CallerPaths(r) == IF r.op = "rename" THEN <<r.path, r.newPath>> ELSE <<r.path>>
\* The path a backend of the write-back adapters must be given for p.
BackendPath(p) == IF p = "/" THEN "" ELSE p

OpsDone == {c \in Calls : call[c].op \in DsFsOps /\ call[c].pc = "done"}

\* C24: an operation of the DsFs adapter invokes its callback once:
\* never twice, and once when the call has run to its end, whatever the
\* backend answered and even if the callback throws on success.
C24_CallbackExactlyOnce ==
    /\ \A c \in Calls : call[c].nCb <= 1
    /\ \A c \in OpsDone : call[c].nCb = 1

\* The mode the instance was asked to give: opts.mode when it is a number,
\* 0777 otherwise.
AskedMode == IF fs.opts # NoMode THEN fs.opts ELSE DefaultMode

\* C29: every Stats and every file handle the file system produces carries
\* the mode given to Create, and 0777 only if none was given.
C29_ModeOptionApplied ==
    \A c \in Calls :
        (call[c].op \in DsFsOps /\ call[c].res.tag \in {"stats", "handle"}) =>
            call[c].res.mode = AskedMode

\* The writes made through the handle, sent to the backend or answered.
WritesMade == {c \in Calls : call[c].op = "write"}

\* C25: write(buffer, offset, length, position) sends the backend exactly
\* the length bytes buffer[offset .. offset+length), for every offset and
\* length within the buffer.
C25_WriteSendsRange ==
    \A c \in WritesMade :
        call[c].sent =
            SubSeq(call[c].buffer, call[c].offset + 1,
                   call[c].offset + call[c].length)

\* The handle operations the backend has rejected with a recognised code.
FileOpsRejected ==
    {c \in Calls : /\ call[c].op \in FileOps
                   /\ call[c].pc = "done"
                   /\ call[c].reply \in RecognisedCodes}

\* C26: an operation of the file handle that the backend rejects with one
\* of the recognised codes reports the error of that code (truncate of a
\* removed file ENOENT, read of a directory EISDIR).
C26_HandleErrorsKeepKind ==
    \A c \in FileOpsRejected :
        /\ call[c].res.tag = "err"
        /\ call[c].res.code = call[c].reply

\* The calls of the operations the adapter does not support, and of sync.
LocalDone ==
    {c \in Calls : /\ call[c].op \in SyncMethods \cup RefusedOps \cup {"sync"}
                   /\ call[c].pc = "done"}
C28_State ==
    \A c \in LocalDone :
        LET r == call[c]
        IN  /\ r.nBackend = 0
            /\ r.op \in SyncMethods =>
                    (r.res.tag = "thrown" /\ r.res.code = "ENOTSUP" /\ r.nCb = 0)
            /\ r.op \in RefusedOps =>
                    (r.res.tag = "err" /\ r.res.code = "ENOTSUP" /\ r.nCb = 1)
            /\ r.op = "sync" => (r.res = OpOk /\ r.nCb = 1)
C28_Step ==
    \A c \in Calls :
        (call'[c] # call[c] /\ call'[c].op \in SyncMethods \cup RefusedOps \cup {"sync"})
            => (node' = node /\ call'[c].pc = "done")

Failed == {c \in Calls : call[c].pc = "done" /\ call[c].res.tag \in {"err", "raw"}}

\* C27: an operation that reports an error has left the backend as it
\* was: an open or createFile call that fails has neither created nor
\* truncated its node.
C27_FailedCallChangedNothing ==
    \A c \in Failed : ~call[c].clean

\* The open calls, and those waiting for the backend.
Opens == {c \in Calls : call[c].op = "open"}
OpenWaiting(c) ==
    call[c].op = "open" /\ call[c].pc \in {"getattr", "truncate", "create"}
OpenCalledBack(c) == call[c].op = "open" /\ call[c].nCb = 1

\* One open issues at most one getattr, one truncate and one create, and a
\* create after a truncate only when the truncate was rejected with ENOENT.
C30_AtMostOneRetry ==
    \A c \in Opens :
        /\ call[c].nGetattr <= 1
        /\ call[c].nTruncate <= 1
        /\ call[c].nCreate <= 1
        /\ call[c].nCb <= 1
        /\ (call[c].nTruncate = 1 /\ call[c].nCreate = 1) => call[c].trunc = "ENOENT"

\* C30: the retry of open happens at most once per call (at most one
\* truncate and one create, no second truncate after ENOENT), and an open
\* whose backend calls all settle invokes its callback, however the
\* other clients keep changing the path.
C30_OpenRetriesOnceAndEnds ==
    /\ []C30_AtMostOneRetry
    /\ \A c \in Calls : OpenWaiting(c) ~> OpenCalledBack(c)

C30_Witness ==
    \E c \in Opens :
        /\ call[c].pc = "done"
        /\ call[c].probe = "ok"
        /\ call[c].trunc = "ENOENT"
        /\ call[c].nTruncate = 1
        /\ call[c].nCreate = 1
        /\ call[c].res = ApiError("EEXIST", call[c].path)

\* The backend has resolved the getattr of stat call c in this step.
StatResolved(c) ==
    /\ call[c].op = "stat"
    /\ call[c].pc = "backend"
    /\ call'[c].pc # "backend"
    /\ call'[c].reply = "ok"

\* C31: stat of a non-root path reports DIRECTORY, FILE or SYMLINK exactly
\* when the backend's reply has type 'directory', 'file' or 'symlink', and
\* the error EIO when the reply has any other type.
C31_StatTypeOrEIO ==
    [][\A c \in Calls : StatResolved(c) =>
          LET t == node[call[c].path].type
              res == call'[c].res
          IN  /\ t = "directory" => (res.tag = "stats" /\ res.ftype = "DIRECTORY")
              /\ t = "file" => (res.tag = "stats" /\ res.ftype = "FILE")
              /\ t = "symlink" => (res.tag = "stats" /\ res.ftype = "SYMLINK")
              /\ t \notin {"directory", "file", "symlink"} =>
                    (res.tag = "err" /\ res.code = "EIO")]_vars

\* The step in which the put or del of t sends its call to the store.
StoreCallSent(t) ==
    /\ txn[t].pc \notin {"upload", "deleteFile"}
    /\ txn'[t].pc \in {"upload", "deleteFile"}

\* C32: in the static-lock variant a put or del of a read-write
\* transaction reaches the store only while that transaction holds the
\* shared lock, so a transaction created while another one holds the lock
\* sends no put or del before the holder commits.
C32_WritesUnderSharedLock ==
    [][\A t \in Tx : StoreCallSent(t) => lock[RwKey].owner = t]_vars

\* Transaction t has been committed or aborted.
Finished(t) == txn[t].endCb \in {"commit", "abort"}

\* C33: in the static-lock variant a read-write transaction that has been
\* committed or aborted eventually does not hold the shared lock, whether
\* the lock was granted before or after its commit / abort.
C33_FinishedReleases ==
    \A t \in Tx : (Finished(t) /\ lock[RwKey].owner = t) ~> (lock[RwKey].owner # t)

\* Call c has been made and its callback has not been invoked yet.
Pending(c) == call[c].pc \notin {"idle", "done"}

\* C34: every asynchronous operation whose backend calls have completed
\* eventually invokes its callback, NodeFsFile.close, NodeFsFile.sync and
\* readlink of the key-value GridFsFileSystem included.
C34_EveryOperationCallsBack ==
    \A c \in Calls : Pending(c) ~> (call[c].pc = "done" /\ call[c].nCb = 1)

\* Open call c was made on a missing path with whenNotExists = create and
\* whenExists other than fail, and has called back.
CreatingOpen(c) ==
    /\ call[c].op = "open"
    /\ call[c].pc = "done"
    /\ call[c].na = "CREATE_FILE"
    /\ call[c].ea # "THROW_EXCEPTION"
    /\ call[c].probe = "ENOENT"

\* C35: when two opens with whenNotExists = create and whenExists other
\* than fail run at the same time on the same missing path, neither
\* reports EEXIST, and both get a handle unless the backend fails for a
\* reason of its own.
C35_ConcurrentCreatesSucceed ==
    \A c, d \in DOMAIN call :
        (c # d /\ CreatingOpen(c) /\ CreatingOpen(d) /\ call[c].path = call[d].path) =>
            /\ call[c].res # ApiError("EEXIST", call[c].path)
            /\ call[c].res.tag = "err" => call[c].res.code \in BackendFaults

\* The handles that have been closed.
Closed == {h \in WbHandles : call[h].pc = "closed"}

\* The step in which openFile of slot h hands out a handle.
HandleOpened(h) == call[h].pc = "download" /\ call'[h].pc = "open"
\* The step in which sync or close of handle h is called.
SyncCalled(h) == call[h].pc = "open" /\ call'[h].pc = "syncing"

C36_Step ==
    \A h \in WbHandles :
        /\ HandleOpened(h) => call'[h].buffer = node[HandlePath].data
        /\ SyncCalled(h) => (call'[h].sent = call[h].buffer /\ call'[h].nWrites = 1)

C36_State ==
    Closed = WbHandles =>
        /\ lastMut.by \in WbHandles
        /\ node[HandlePath] = FileNode(call[lastMut.by].buffer)

CreateFileSettled(h) ==
    /\ call[h].op = "createFile"
    /\ call[h].pc = "upload"
    /\ call'[h].pc # "upload"

\* C37: createFile of a write-back adapter does not change the content of
\* a file that exists at the path: it fails with EEXIST or leaves the
\* stored bytes as they are.
C37_CreateFileKeepsContent ==
    [][\A h \in WbHandles :
          (CreateFileSettled(h) /\ node[HandlePath].type = "file") =>
              node'[HandlePath] = node[HandlePath]]_vars

\* The step in which the upload of the put of t is answered.
PutAnswered(t) == txn[t].pc = "upload" /\ txn'[t].pc = "done"

\* C38: put does not depend on its overwrite argument: a step is
\* put(key, data, false) exactly when it is put(key, data, true), and an
\* upload the store accepts leaves data under the key whether or not the
\* key held a value, with the store's result handed to the callback.
C38_PutIgnoresOverwrite ==
    [][/\ \A t \in Tx, key \in LockingKeys, data \in Buffers :
            put(t, key, data, FALSE) <=> put(t, key, data, TRUE)
       /\ \A t \in Tx : (PutAnswered(t) /\ txn'[t].reply = "true") =>
            /\ store'[convertPath(txn[t].key)] = StoredFile(txn[t].data)
            /\ txn'[t].res = BoolValue("true")]_vars

\* A put is waiting for its upload on a key that holds another value.
C38_Witness ==
    \E t \in Tx :
        /\ txn[t].op = "put"
        /\ txn[t].pc = "upload"
        /\ store[convertPath(txn[t].key)].present
        /\ store[convertPath(txn[t].key)].data # txn[t].data

\* The step in which get, put or del is called on t.
OperationCalled(t) == Ready(t) /\ txn'[t].pc \notin {"idle", "done"}
\* The steps in which the lock of t is acquired for t and released by t.
Acquired(t) == lock[LockOf(t)].owner # t /\ lock'[LockOf(t)].owner = t
ReleasedBy(t) == lock[LockOf(t)].owner = t /\ lock'[LockOf(t)].owner # t

\* The lock of t is held exactly while `done` is set, and no second
\* acquisition waits behind the first.
C39_State ==
    \A t \in Tx :
        /\ txn[t].done <=> lock[LockOf(t)].owner = t
        /\ lock[LockOf(t)].queue = <<>>

C39_Step ==
    \A t \in Tx :
        /\ Acquired(t) => (OperationCalled(t) /\ ~txn[t].done /\ txn'[t].done)
        /\ (OperationCalled(t) /\ ~txn[t].done) => Acquired(t)
        /\ (OperationCalled(t) /\ txn[t].done) => lock' = lock
        /\ ReleasedBy(t) => (txn[t].done /\ ~txn'[t].done /\ lock'[LockOf(t)] = FreeLock)
        /\ (abort(t) \/ commitTimeout(t)) =>
                IF txn[t].done THEN ReleasedBy(t) ELSE lock' = lock

\* C39: within one transaction the lock is acquired at most once per
\* active period and released at most once: the first get / put / del
\* acquires it, later operations run without acquiring it again, and of
\* any number of commit and abort calls the first releases an acquired
\* lock and the others release nothing.
C39_AcquireOnceReleaseOnce == []C39_State /\ [][C39_Step]_vars

\* The transaction took the lock with an operation that has called back,
\* and its commit or abort has released the lock.
C39_Witness ==
    \E t \in Tx :
        /\ txn[t].pc = "done"
        /\ txn[t].ended
        /\ txn[t].endCb \in {"commit", "abort"}
        /\ ~txn[t].done
        /\ lock[LockOf(t)] = FreeLock

====
